---- MODULE Spec2Model ----
(***************************************************************************)
(* Decision-synthesis pipeline of backend/report-service:                  *)
(*   ai_ensemble.py             ensemble_vote, analyze_with_ensemble       *)
(*   risk_score_calculator.py   calculate_total_risk_score and its parts   *)
(*   target_price_calculator.py calculate_target_prices and its parts      *)
(*                                                                         *)
(* Numbers.  The Python code works on floats; the model works on exact     *)
(* fixed-point integers.  Scores are held in centi-points (1/100 of a      *)
(* point, the precision of round(x, 2)), risk sub-scores in 1/10000 of a   *)
(* point, prices as exact rationals <<numerator, denominator>>.  Every     *)
(* round() of the source is modelled by RoundHalfEven.                     *)
(***************************************************************************)
EXTENDS Integers, Sequences, FiniteSets, TLC

(***************************************************************************)
(* Bounds of the model.                                                    *)
(***************************************************************************)
\* longest list of model results handed to a direct call of ensemble_vote
MaxModels == 3

(***************************************************************************)
(* Arithmetic helpers.                                                     *)
(***************************************************************************)
Max2(a, b) == IF a >= b THEN a ELSE b
Min2(a, b) == IF a <= b THEN a ELSE b

\* Python round(): nearest, ties to even, of the exact quotient num/den (den > 0)
RoundHalfEven(num, den) ==
    LET q == num \div den
        r == num % den
    IN  IF 2 * r < den THEN q
        ELSE IF 2 * r > den THEN q + 1
        ELSE IF q % 2 = 0 THEN q ELSE q + 1

RECURSIVE SeqSum(_)
SeqSum(s) == IF s = <<>> THEN 0 ELSE Head(s) + SeqSum(Tail(s))

\* list.count(v)
SeqCount(s, v) == Cardinality({i \in DOMAIN s : s[i] = v})

\* set(list)
SeqSet(s) == {s[i] : i \in DOMAIN s}

\* floor of the square root, by bisection on [lo, hi]
RECURSIVE ISqrtBetween(_, _, _)
ISqrtBetween(n, lo, hi) ==
    IF lo >= hi THEN lo
    ELSE LET mid == (lo + hi + 1) \div 2
         IN  IF mid * mid <= n THEN ISqrtBetween(n, mid, hi)
             ELSE ISqrtBetween(n, lo, mid - 1)

ISqrt(n) == ISqrtBetween(n, 0, 46340)

\* np.std(xs) (population standard deviation) of whole-point values xs, in
\* 1/10000 of a point, truncated:  sqrt(N*sum(x^2) - sum(x)^2) / N
np_std(xs) ==
    LET n  == Len(xs)
        m  == n * SeqSum([i \in DOMAIN xs |-> xs[i] * xs[i]]) - SeqSum(xs) * SeqSum(xs)
        r1 == ISqrt(m * 10000)
        rem == m * 10000 - r1 * r1
        d  == CHOOSE k \in 0..99 :
                 /\ 200 * r1 * k + k * k <= 10000 * rem
                 /\ \/ k = 99
                    \/ 200 * r1 * (k + 1) + (k + 1) * (k + 1) > 10000 * rem
    IN  (100 * r1 + d) \div n

(***************************************************************************)
(* ai_ensemble.py: data.                                                   *)
(*   A model result is a record                                            *)
(*     model, recommendation, risk_level : strings                         *)
(*     evaluation_score                   : whole points 0..100            *)
(*     risk_score          : <<>> when the key is absent, else <<points>>  *)
(*     timeframe_analysis  : <<>> when the key is absent, else             *)
(*                           <<[short_term, medium_term, long_term]>>      *)
(*                           where an outlook "" stands for a missing      *)
(*                           bucket (read as "neutral" by .get)            *)
(***************************************************************************)
Recommendations == {"buy", "sell", "hold"}
RiskLevels == {"low", "medium", "high"}
ModelIds == {"gpt-4-turbo", "claude-3.5-sonnet", "other-model"}

NoTimeframe == <<>>
EmptyTimeframe == <<[short_term |-> "", medium_term |-> "", long_term |-> ""]>>
Timeframe(s, m, l) == <<[short_term |-> s, medium_term |-> m, long_term |-> l]>>

ModelResult(m, rec, lvl, ev, rs, tf) ==
    [model |-> m, recommendation |-> rec, risk_level |-> lvl,
     evaluation_score |-> ev, risk_score |-> rs, timeframe_analysis |-> tf]

\* results as normalised by analyze_with_gpt4 / analyze_with_claude: the
\* recommendation, risk level and scores are validated, risk_score and
\* timeframe_analysis are always present
TaskResults(m) ==
    { ModelResult(m, rec, lvl, ev, <<rs>>, tf) :
        rec \in Recommendations, lvl \in RiskLevels, ev \in {70, 80},
        rs \in {20, 60}, tf \in {EmptyTimeframe, Timeframe("bullish", "neutral", "bearish")} }

\* results handed to ensemble_vote by a direct caller: the votes vary on one
\* slice, the scores and model ids on another, the timeframe data on a third
VoteSlice ==
    { ModelResult("gpt-4-turbo", v[1], v[2], 70, <<50>>, NoTimeframe) :
        v \in {<<"buy", "low">>, <<"sell", "low">>, <<"hold", "low">>,
                <<"buy", "medium">>, <<"buy", "high">>} }
ScoreSlice ==
    { ModelResult(sc[1], "buy", "low", sc[2], sc[3], NoTimeframe) :
        sc \in {<<"gpt-4-turbo", 80, <<20>>>>, <<"claude-3.5-sonnet", 70, <<>>>>,
                 <<"other-model", 70, <<>>>>, <<"other-model", 80, <<20>>>>} }
TimeframeSlice ==
    { ModelResult("claude-3.5-sonnet", "buy", "low", 70, <<50>>, tf) :
        tf \in {EmptyTimeframe, Timeframe("bullish", "bullish", "bullish"),
                Timeframe("bearish", "bullish", "")} }
VoteInputs == VoteSlice \cup ScoreSlice \cup TimeframeSlice

\* all lists of length 0..n over S
ListsUpTo(S, n) == UNION {[1..k -> S] : k \in 0..n}

\* the iteration orders of a set: every enumeration of it without repetition
Orders(S) ==
    {o \in [1..Cardinality(S) -> S] : \A i, j \in DOMAIN o : o[i] = o[j] => i = j}

(***************************************************************************)
(* ai_ensemble.py: ensemble_vote.                                          *)
(*   An ensemble result is a record                                        *)
(*     risk_level, recommendation : strings                                *)
(*     evaluation_score, confidence_score : centi-points                   *)
(*     risk_score : <<>> when the key is absent, else <<centi-points>>     *)
(*     error      : <<>> when the key is absent, else <<message>>          *)
(*     models_used : the model ids of ensemble_metadata (<<>> if absent)   *)
(*     agreement  : <<>> or <<the agreement percentages of the metadata>>  *)
(***************************************************************************)
\* ModelWeight with the default weight of an unknown model id taken as 1.0
ModelWeight_default_one(m) ==
    IF m = "gpt-4-turbo" THEN 6
    ELSE IF m = "claude-3.5-sonnet" THEN 4
    ELSE 10

\* weights.get(r["model"], 0.5), in tenths
ModelWeight(m) ==
    IF m = "gpt-4-turbo" THEN 6
    ELSE IF m = "claude-3.5-sonnet" THEN 4
    ELSE 5

\* MaxByCount taking the first key of the dict whatever its count
MaxByCount_first_key(order, votes) == order[1]

\* max(counts, key=counts.get) over a dict built from set(votes): the first
\* key, in the iteration order of the set, whose count is maximal
MaxByCount(order, votes) ==
    LET best(i) == \A j \in DOMAIN order :
                      SeqCount(votes, order[j]) <= SeqCount(votes, order[i])
    IN  order[CHOOSE i \in DOMAIN order :
                 best(i) /\ \A j \in 1..(i - 1) : ~best(j)]

\* RiskScoreOf with a missing risk_score read as 0
RiskScoreOf_default_zero(r) == IF r.risk_score = <<>> THEN 0 ELSE r.risk_score[1]

\* r.get("risk_score", 50)
RiskScoreOf(r) == IF r.risk_score = <<>> THEN 50 ELSE r.risk_score[1]

\* r["timeframe_analysis"].get(bucket, {}).get("outlook", "neutral")
OutlookOf(o) == IF o = "" THEN "neutral" ELSE o

\* len([o for o in outlooks if o == max(set(outlooks), key=outlooks.count)])
TopCount(outlooks) ==
    CHOOSE c \in 1..Len(outlooks) :
        /\ \E v \in SeqSet(outlooks) : SeqCount(outlooks, v) = c
        /\ \A v \in SeqSet(outlooks) : SeqCount(outlooks, v) <= c

EmptyVoteResult ==
    [risk_level |-> "medium", recommendation |-> "hold",
     evaluation_score |-> 5000, confidence_score |-> 0,
     risk_score |-> <<>>, error |-> <<>>, models_used |-> <<>>,
     agreement |-> <<>>]

ensemble_vote(results, recOrder, riskOrder) ==
    IF results = <<>> THEN EmptyVoteResult
    ELSE
    LET n == Len(results)
        recommendations == [i \in DOMAIN results |-> results[i].recommendation]
        final_recommendation == MaxByCount(recOrder, recommendations)
        risk_levels == [i \in DOMAIN results |-> results[i].risk_level]
        final_risk_level == MaxByCount(riskOrder, risk_levels)
        weighted_scores == [i \in DOMAIN results |->
                               results[i].evaluation_score * ModelWeight(results[i].model)]
        weight_sum == SeqSum([i \in DOMAIN results |-> ModelWeight(results[i].model)])
        rec_count == SeqCount(recommendations, final_recommendation)
        score_std == np_std([i \in DOMAIN results |-> results[i].evaluation_score])
        score_agreement == Max2(0, 1000000 - score_std)
        risk_count == SeqCount(risk_levels, final_risk_level)
        risk_scores == [i \in DOMAIN results |-> RiskScoreOf(results[i])]
        risk_score_std == IF n > 1 THEN np_std(risk_scores) ELSE 0
        risk_score_agreement == Max2(0, 1000000 - risk_score_std)
        has_timeframes == \A i \in DOMAIN results : results[i].timeframe_analysis # <<>>
        short_outlooks == [i \in DOMAIN results |->
                              OutlookOf(results[i].timeframe_analysis[1].short_term)]
        medium_outlooks == [i \in DOMAIN results |->
                              OutlookOf(results[i].timeframe_analysis[1].medium_term)]
        long_outlooks == [i \in DOMAIN results |->
                              OutlookOf(results[i].timeframe_analysis[1].long_term)]
        top_sum == TopCount(short_outlooks) + TopCount(medium_outlooks)
                       + TopCount(long_outlooks)
        \* confidence_score in 1/10000 point, times 300 * n
        confidence_num ==
              90000000 * rec_count
            + 75 * n * score_agreement
            + 60000000 * risk_count
            + 45 * n * risk_score_agreement
            + (IF has_timeframes THEN 10000000 * top_sum ELSE 15000000 * n)
    IN  [risk_level |-> final_risk_level,
         recommendation |-> final_recommendation,
         evaluation_score |-> RoundHalfEven(100 * SeqSum(weighted_scores), weight_sum),
         confidence_score |-> RoundHalfEven(confidence_num, 30000 * n),
         risk_score |-> <<RoundHalfEven(100 * SeqSum(risk_scores), n)>>,
         error |-> <<>>,
         models_used |-> [i \in DOMAIN results |-> results[i].model],
         agreement |-> <<[rec_agreement_pct |-> RoundHalfEven(10000 * rec_count, n),
                          risk_agreement_pct |-> RoundHalfEven(10000 * risk_count, n),
                          score_agreement_pct |-> RoundHalfEven(score_agreement, 100),
                          risk_score_agreement_pct |-> RoundHalfEven(risk_score_agreement, 100),
                          timeframe_agreement_pct |->
                              IF has_timeframes THEN RoundHalfEven(10000 * top_sum, 3 * n)
                              ELSE 5000]>>]

(***************************************************************************)
(* ai_ensemble.py: analyze_with_ensemble, after asyncio.gather.            *)
(***************************************************************************)
None == <<>>
Some(r) == <<r>>

\* AllFailedResult without the error key
AllFailedResult_no_error ==
    [risk_level |-> "medium", recommendation |-> "hold",
     evaluation_score |-> 5000, confidence_score |-> 0,
     risk_score |-> <<>>, error |-> <<>>,
     models_used |-> <<>>, agreement |-> <<>>]

AllFailedResult ==
    [risk_level |-> "medium", recommendation |-> "hold",
     evaluation_score |-> 5000, confidence_score |-> 0,
     risk_score |-> <<>>, error |-> <<"All AI models failed">>,
     models_used |-> <<>>, agreement |-> <<>>]

SingleResult(single_result) ==
    [risk_level |-> single_result.risk_level,
     recommendation |-> single_result.recommendation,
     evaluation_score |-> 100 * single_result.evaluation_score,
     confidence_score |-> 5000,
     risk_score |-> <<>>, error |-> <<>>,
     models_used |-> <<single_result.model>>, agreement |-> <<>>]

\* lines 1052-1109: the results are collected, then the fallbacks and the vote
CombineResults(gpt4_result, claude_result, recOrder, riskOrder) ==
    LET valid_results == gpt4_result \o claude_result
    IN  IF valid_results = <<>> THEN AllFailedResult
        ELSE IF Len(valid_results) = 1 THEN SingleResult(valid_results[1])
        ELSE ensemble_vote(valid_results, recOrder, riskOrder)

(***************************************************************************)
(* risk_score_calculator.py.                                               *)
(*   Optional inputs are <<>> (None or missing key) or <<value>>.          *)
(*   Units of the inputs: negative_ratio in 1/100 of a percent,            *)
(*   avg_sentiment_score in hundredths, kospi_change,                      *)
(*   sector_relative_strength and foreign_ownership_change in tenths of a  *)
(*   percent, the others in whole units.  Risk scores are in 1/10000 of a  *)
(*   point until they are rounded to centi-points on return.               *)
(*   recent_sentiment_change is "worsened", "unchanged" or "improved" for  *)
(*   the three Korean strings the source compares with.                    *)
(***************************************************************************)
Points(n) == n * 10000

\* Python truthiness of an optional number: None and 0 are false
Truthy(x) == x # <<>> /\ x[1] # 0

\* Clamp without the upper limit
Clamp_no_cap(score, cap) == Max2(0, score)

\* min(cap, max(0.0, score))
Clamp(score, cap) == Min2(cap, Max2(0, score))

\* no news counted as no risk
NeutralNewsRisk_zero == Points(0)

\* return 15.0 when there is no news (line 27)
NeutralNewsRisk == Points(15)

\* calculate_news_sentiment_risk with the penalty of an unchanged sentiment
\* whatever the recent change
calculate_news_sentiment_risk_flat_penalty(news_trend) ==
    IF news_trend = <<>> \/ news_trend[1].total_count = 0 THEN NeutralNewsRisk
    ELSE
    LET nt == news_trend[1]
        negative_score == 15 * nt.negative_ratio
        sentiment_score == 500 * (100 - nt.avg_sentiment_score)
    IN  Clamp(negative_score + sentiment_score + 25000, Points(30))

calculate_news_sentiment_risk(news_trend) ==
    IF news_trend = <<>> \/ news_trend[1].total_count = 0 THEN NeutralNewsRisk
    ELSE
    LET nt == news_trend[1]
        negative_score == 15 * nt.negative_ratio
        sentiment_score == 500 * (100 - nt.avg_sentiment_score)
        change_penalty ==
            IF nt.recent_sentiment_change = "worsened" THEN 50000
            ELSE IF nt.recent_sentiment_change = "unchanged" THEN 25000
            ELSE 0
    IN  Clamp(negative_score + sentiment_score + change_penalty, Points(30))

calculate_volatility_risk(current_price, week52_high, week52_low, avg_volume, current_volume, bollinger_position) ==
    LET position_score ==
            IF /\ Truthy(current_price) /\ Truthy(week52_high) /\ Truthy(week52_low)
               /\ week52_high[1] > week52_low[1]
            THEN LET price_range == week52_high[1] - week52_low[1]
                     from_low == current_price[1] - week52_low[1]
                 IN  IF 10 * from_low > 9 * price_range THEN Points(10)
                     ELSE IF 10 * from_low < price_range THEN Points(10)
                     ELSE IF 10 * from_low >= 4 * price_range
                             /\ 10 * from_low <= 6 * price_range THEN Points(3)
                     ELSE Points(6)
            ELSE 0
        volume_score ==
            IF Truthy(avg_volume) /\ Truthy(current_volume)
            THEN IF current_volume[1] >= 3 * avg_volume[1] THEN Points(8)
                 ELSE IF current_volume[1] >= 2 * avg_volume[1] THEN Points(5)
                 ELSE IF 2 * current_volume[1] >= 3 * avg_volume[1] THEN Points(2)
                 ELSE 0
            ELSE 0
        bollinger_score ==
            IF bollinger_position \in {"above_upper", "below_lower"} THEN Points(7)
            ELSE IF bollinger_position \in {"near_upper", "near_lower"} THEN Points(3)
            ELSE 0
    IN  Clamp(position_score + volume_score + bollinger_score, Points(25))

calculate_financial_risk(per, roe, debt_ratio, operating_margin) ==
    LET per_score ==
            IF per = <<>> THEN 0
            ELSE IF per[1] < 0 THEN Points(5)
            ELSE IF per[1] > 50 THEN Points(4)
            ELSE IF per[1] > 30 THEN Points(2)
            ELSE IF per[1] < 5 THEN Points(1)
            ELSE 0
        roe_score ==
            IF roe = <<>> THEN 0
            ELSE IF roe[1] < 0 THEN Points(5)
            ELSE IF roe[1] < 5 THEN Points(3)
            ELSE IF roe[1] < 10 THEN Points(1)
            ELSE 0
        debt_score ==
            IF debt_ratio = <<>> THEN 0
            ELSE IF debt_ratio[1] > 200 THEN Points(6)
            ELSE IF debt_ratio[1] > 150 THEN Points(4)
            ELSE IF debt_ratio[1] > 100 THEN Points(2)
            ELSE 0
        margin_score ==
            IF operating_margin = <<>> THEN 0
            ELSE IF operating_margin[1] < 0 THEN Points(4)
            ELSE IF operating_margin[1] < 3 THEN Points(2)
            ELSE IF operating_margin[1] < 5 THEN Points(1)
            ELSE 0
    IN  Clamp(per_score + roe_score + debt_score + margin_score, Points(20))

calculate_market_risk(kospi_change, sector_relative_strength, foreign_ownership_change, program_trading_net) ==
    LET kospi_score ==
            IF kospi_change = <<>> THEN 0
            ELSE IF kospi_change[1] <= -30 THEN Points(6)
            ELSE IF kospi_change[1] <= -20 THEN Points(4)
            ELSE IF kospi_change[1] <= -10 THEN Points(2)
            ELSE 0
        sector_score ==
            IF sector_relative_strength = <<>> THEN 0
            ELSE IF sector_relative_strength[1] <= -30 THEN Points(5)
            ELSE IF sector_relative_strength[1] <= -20 THEN Points(3)
            ELSE IF sector_relative_strength[1] <= -10 THEN Points(1)
            ELSE 0
        foreign_score ==
            IF foreign_ownership_change = <<>> THEN 0
            ELSE IF foreign_ownership_change[1] < -10 THEN Points(2)
            ELSE IF foreign_ownership_change[1] < -5 THEN Points(1)
            ELSE 0
        program_score ==
            IF program_trading_net = <<>> THEN 0
            ELSE IF program_trading_net[1] < -500 THEN Points(2)
            ELSE IF program_trading_net[1] < -200 THEN Points(1)
            ELSE 0
    IN  Clamp(kospi_score + sector_score + foreign_score + program_score, Points(15))

calculate_liquidity_risk(current_volume, avg_volume, market_cap, free_float) ==
    LET volume_score ==
            IF Truthy(current_volume) /\ Truthy(avg_volume)
            THEN IF 10 * current_volume[1] < 3 * avg_volume[1] THEN Points(4)
                 ELSE IF 2 * current_volume[1] < avg_volume[1] THEN Points(2)
                 ELSE 0
            ELSE 0
        cap_score ==
            IF market_cap = <<>> THEN 0
            ELSE IF market_cap[1] < 500 THEN Points(3)
            ELSE IF market_cap[1] < 1000 THEN Points(2)
            ELSE IF market_cap[1] < 3000 THEN Points(1)
            ELSE 0
        float_score ==
            IF free_float = <<>> THEN 0
            ELSE IF free_float[1] < 20 THEN Points(3)
            ELSE IF free_float[1] < 30 THEN Points(2)
            ELSE IF free_float[1] < 40 THEN Points(1)
            ELSE 0
    IN  Clamp(volume_score + cap_score + float_score, Points(10))

\* lines 347-353, on the unrounded total
RiskLevelOf(total_score) ==
    IF total_score < Points(30) THEN "low"
    ELSE IF total_score < Points(60) THEN "medium"
    ELSE "high"

\* round() of a float whose decimal value is num/den (den > 0).  A value
\* halfway between two results is in general not the float the arithmetic
\* produced: that float lies just below or just above it and round() follows
\* the float (7.515 -> 7.51 while 25.515 -> 25.52), so the direction at a tie
\* is an outcome of the float arithmetic: up \in {0, 1}.
RoundFloat(num, den, up) ==
    LET q == num \div den
        r == num % den
    IN  IF 2 * r < den THEN q ELSE IF 2 * r > den THEN q + 1 ELSE q + up

\* round(x, 2) of a score held in 1/10000 of a point, in centi-points
Round2(x, up) == RoundFloat(x, 100, up)

\* up_total, up_news: the direction round() takes when the value is a tie
calculate_total_risk_score(in, up_total, up_news) ==
    LET news_risk == calculate_news_sentiment_risk(in.news_trend)
        volatility_risk ==
            calculate_volatility_risk(in.current_price, in.week52_high, in.week52_low,
                                      in.avg_volume, in.current_volume,
                                      in.bollinger_position)
        financial_risk ==
            calculate_financial_risk(in.per, in.roe, in.debt_ratio, in.operating_margin)
        market_risk ==
            calculate_market_risk(in.kospi_change, in.sector_relative_strength,
                                  in.foreign_ownership_change, in.program_trading_net)
        liquidity_risk ==
            calculate_liquidity_risk(in.current_volume, in.avg_volume,
                                     in.market_cap, in.free_float)
        total_score == news_risk + volatility_risk + financial_risk
                           + market_risk + liquidity_risk
    IN  [total_score |-> Round2(total_score, up_total),
         risk_level |-> RiskLevelOf(total_score),
         breakdown |-> [news_sentiment |-> Round2(news_risk, up_news),
                        volatility |-> Round2(volatility_risk, 0),
                        financial |-> Round2(financial_risk, 0),
                        market |-> Round2(market_risk, 0),
                        liquidity |-> Round2(liquidity_risk, 0)]]

(***************************************************************************)
(* Inputs of calculate_total_risk_score.  One record holds the news trend, *)
(* the stock_info fields and the market_data fields.  The inputs vary one  *)
(* category at a time over every branch of its thresholds, on top of three *)
(* base records: nothing known, every category at its worst, and the       *)
(* sample of the module's self-test (lines 391-418).                       *)
(***************************************************************************)
NewsTrend(n, nr, avg, change) ==
    <<[total_count |-> n, negative_ratio |-> nr, avg_sentiment_score |-> avg,
       recent_sentiment_change |-> change]>>

NewsTrends ==
    {<<>>, NewsTrend(0, 0, 0, "unchanged")}
    \cup { NewsTrend(7, nr, avg, ch) :
             nr \in {0, 10, 1430, 3332, 4000, 10000, 20000},
             avg \in {-100, -50, -30, 3, 33, 100, 300},
             ch \in {"worsened", "unchanged", "improved"} }

AbsentFacts ==
    [news_trend |-> <<>>,
     current_price |-> <<>>, week52_high |-> <<>>, week52_low |-> <<>>,
     avg_volume |-> <<>>, current_volume |-> <<>>, bollinger_position |-> "absent",
     per |-> <<>>, roe |-> <<>>, debt_ratio |-> <<>>, operating_margin |-> <<>>,
     market_cap |-> <<>>, free_float |-> <<>>,
     kospi_change |-> <<>>, sector_relative_strength |-> <<>>,
     foreign_ownership_change |-> <<>>, program_trading_net |-> <<>>]

WorstFacts ==
    [news_trend |-> NewsTrend(7, 10000, -100, "worsened"),
     current_price |-> <<74500>>, week52_high |-> <<75000>>, week52_low |-> <<55000>>,
     avg_volume |-> <<1000>>, current_volume |-> <<3000>>,
     bollinger_position |-> "above_upper",
     per |-> <<-1>>, roe |-> <<-1>>, debt_ratio |-> <<250>>, operating_margin |-> <<-1>>,
     market_cap |-> <<400>>, free_float |-> <<10>>,
     kospi_change |-> <<-30>>, sector_relative_strength |-> <<-30>>,
     foreign_ownership_change |-> <<-15>>, program_trading_net |-> <<-600>>]

SampleFacts ==
    [news_trend |-> NewsTrend(20, 4000, -30, "worsened"),
     current_price |-> <<65000>>, week52_high |-> <<75000>>, week52_low |-> <<55000>>,
     avg_volume |-> <<1000>>, current_volume |-> <<2500>>,
     bollinger_position |-> "absent",
     per |-> <<12>>, roe |-> <<8>>, debt_ratio |-> <<180>>, operating_margin |-> <<4>>,
     market_cap |-> <<15000>>, free_float |-> <<35>>,
     kospi_change |-> <<-25>>, sector_relative_strength |-> <<-18>>,
     foreign_ownership_change |-> <<-7>>, program_trading_net |-> <<-300>>]

BaseFacts == {AbsentFacts, WorstFacts, SampleFacts}

PriceSamples == {<<>>, <<0>>, <<74500>>, <<55500>>, <<65000>>, <<70000>>}
RangeSamples == {<<<<75000>>, <<55000>>>>, <<<<60000>>, <<60000>>>>, <<<<>>, <<>>>>}
VolumeSamples ==
    {<<<<>>, <<>>>>} \cup
    {<<<<1000>>, <<cur>>>> : cur \in {0, 3000, 2000, 1500, 1000, 400, 299}}
BollingerSamples ==
    {"absent", "above_upper", "below_lower", "near_upper", "near_lower", "normal"}

NewsSlice == {[b EXCEPT !.news_trend = n] : b \in BaseFacts, n \in NewsTrends}
VolatilitySlice ==
    {[b EXCEPT !.current_price = cp, !.week52_high = rg[1], !.week52_low = rg[2],
               !.avg_volume = vol[1], !.current_volume = vol[2],
               !.bollinger_position = bb] :
        b \in BaseFacts, cp \in PriceSamples, rg \in RangeSamples,
        vol \in VolumeSamples, bb \in BollingerSamples}
FinancialSlice ==
    {[b EXCEPT !.per = p, !.roe = r, !.debt_ratio = d, !.operating_margin = m] :
        b \in BaseFacts,
        p \in {<<>>, <<-1>>, <<60>>, <<40>>, <<3>>, <<12>>},
        r \in {<<>>, <<-1>>, <<3>>, <<8>>, <<12>>},
        d \in {<<>>, <<250>>, <<180>>, <<120>>, <<50>>},
        m \in {<<>>, <<-1>>, <<2>>, <<4>>, <<10>>}}
MarketSlice ==
    {[b EXCEPT !.kospi_change = k, !.sector_relative_strength = sr,
               !.foreign_ownership_change = f, !.program_trading_net = pt] :
        b \in BaseFacts,
        k \in {<<>>, <<-30>>, <<-25>>, <<-10>>, <<5>>},
        sr \in {<<>>, <<-30>>, <<-25>>, <<-10>>, <<5>>},
        f \in {<<>>, <<-15>>, <<-10>>, <<-7>>, <<-5>>, <<0>>},
        pt \in {<<>>, <<-600>>, <<-500>>, <<-300>>, <<-200>>, <<0>>}}
LiquiditySlice ==
    {[b EXCEPT !.avg_volume = vol[1], !.current_volume = vol[2],
               !.market_cap = mc, !.free_float = ff] :
        b \in BaseFacts, vol \in VolumeSamples,
        mc \in {<<>>, <<400>>, <<800>>, <<2000>>, <<15000>>},
        ff \in {<<>>, <<10>>, <<25>>, <<35>>, <<50>>}}

RiskInputs ==
    NewsSlice \cup VolatilitySlice \cup FinancialSlice \cup MarketSlice \cup LiquiditySlice

(***************************************************************************)
(* target_price_calculator.py.  Prices are whole won, method targets are   *)
(* held in 1/1000 won, weights in twentieths (0.30 = 6/20), the market     *)
(* adjustment in thousandths and a scenario target as the exact fraction   *)
(* num/den of a won.  relative_strength is held in tenths.                 *)
(***************************************************************************)
Targets(c, n, a) == [conservative |-> c, neutral |-> n, aggressive |-> a]

calculate_per_based_target(financial_data, sector_relative) ==
    LET per == financial_data.per
        eps == financial_data.eps
        adjustment == 100 + (sector_relative - 10) * 3
    IN  IF per <= 0 \/ eps <= 0 THEN Targets(0, 0, 0)
        ELSE Targets(eps * per * 9 * adjustment,
                     eps * per * 10 * adjustment,
                     eps * per * 12 * adjustment)

calculate_pbr_based_target(financial_data) ==
    LET pbr == financial_data.pbr
        bps == financial_data.bps
    IN  IF pbr <= 0 \/ bps <= 0 THEN Targets(0, 0, 0)
        ELSE Targets(bps * pbr * 850, bps * pbr * 1000, bps * pbr * 1150)

calculate_technical_target(current_price, price_data) ==
    LET week52_high == price_data.week52_high
        week52_low == price_data.week52_low
    IN  IF week52_high <= 0 \/ week52_low <= 0 THEN Targets(0, 0, 0)
        ELSE Targets(current_price * 1000 + (week52_high - current_price) * 300,
                     current_price * 1000 + (week52_high - current_price) * 500,
                     week52_high * 1050)

\* calculate_market_adjustment without the volatility discount and premium
calculate_market_adjustment_no_volatility(market_context) ==
    LET trend == IF market_context.market_trend = "bullish" THEN 50
                 ELSE IF market_context.market_trend = "bearish" THEN -50
                 ELSE 0
        strength_adjustment == market_context.market_strength - 50
    IN  Max2(900, Min2(1100, 1000 + trend + strength_adjustment))

calculate_market_adjustment(market_context) ==
    LET trend == IF market_context.market_trend = "bullish" THEN 50
                 ELSE IF market_context.market_trend = "bearish" THEN -50
                 ELSE 0
        strength_adjustment == market_context.market_strength - 50
        volatility == IF market_context.volatility_level = "high" THEN -30
                      ELSE IF market_context.volatility_level = "low" THEN 20
                      ELSE 0
    IN  Max2(900, Min2(1100, 1000 + trend + strength_adjustment + volatility))

RECURSIVE WeightSum(_)
WeightSum(entries) ==
    IF entries = <<>> THEN 0 ELSE Head(entries)[2] + WeightSum(Tail(entries))

RECURSIVE WeightedSum(_)
WeightedSum(entries) ==
    IF entries = <<>> THEN 0
    ELSE Head(entries)[1] * Head(entries)[2] + WeightedSum(Tail(entries))

\* entries: <<target, weight>> of the four methods in the order of the code;
\* a method joins the average when its target is positive
Appended(entries) == SelectSeq(entries, LAMBDA e : e[1] > 0)

\* max((weighted_sum / total_weight) * market_adjustment, current_price * floor)
\* or current_price * fallback when no method has a target; percent arguments
WeightedTarget(current_price, entries, market_adjustment, fallback, floor) ==
    LET used == Appended(entries)
        total_weight == WeightSum(used)
        weighted_sum == WeightedSum(used)
    IN  IF used = <<>> THEN [num |-> current_price * fallback, den |-> 100]
        ELSE [num |-> Max2(weighted_sum * market_adjustment,
                           current_price * floor * total_weight * 10000),
              den |-> total_weight * 1000000]

calculate_conservative_target(current_price, per_targets, pbr_targets, technical_targets, analyst_target, market_adjustment) ==
    WeightedTarget(current_price,
                   << <<per_targets.conservative, 6>>, <<pbr_targets.conservative, 5>>,
                      <<technical_targets.conservative, 4>>, <<analyst_target * 900, 5>> >>,
                   market_adjustment, 105, 95)

\* the neutral target without its floor
calculate_neutral_target_no_floor(current_price, per_targets, pbr_targets, technical_targets, analyst_target, market_adjustment) ==
    WeightedTarget(current_price,
                   << <<per_targets.neutral, 6>>, <<pbr_targets.neutral, 5>>,
                      <<technical_targets.neutral, 4>>, <<analyst_target * 1000, 5>> >>,
                   market_adjustment, 110, 0)

calculate_neutral_target(current_price, per_targets, pbr_targets, technical_targets, analyst_target, market_adjustment) ==
    WeightedTarget(current_price,
                   << <<per_targets.neutral, 6>>, <<pbr_targets.neutral, 5>>,
                      <<technical_targets.neutral, 4>>, <<analyst_target * 1000, 5>> >>,
                   market_adjustment, 110, 100)

calculate_aggressive_target(current_price, per_targets, pbr_targets, technical_targets, analyst_target, market_adjustment) ==
    WeightedTarget(current_price,
                   << <<per_targets.aggressive, 7>>, <<pbr_targets.aggressive, 4>>,
                      <<technical_targets.aggressive, 5>>, <<analyst_target * 1100, 4>> >>,
                   market_adjustment, 120, 105)

\* round(x, 0) if x > 0 else None
RoundedPrice(target, up) ==
    IF target.num > 0 THEN <<RoundFloat(target.num, target.den, up)>> ELSE <<>>

\* The values read from the dicts are optional: <<>> is a key present with
\* the value None, <<v>> a value; a missing key is the default of its .get().
\* A None that reaches a comparison or a subtraction raises TypeError:
\*   per <= 0 or eps <= 0 (line 111), relative_strength - 1.0 (line 121),
\*   pbr <= 0 or bps <= 0 (line 143), week52_high <= 0 or week52_low <= 0
\*   (line 170), market_strength - 50 (line 210), analyst_target > 0 (line 252)
RaisesTypeError(in) ==
    \/ in.financial_data.per = <<>>
    \/ /\ in.financial_data.per[1] > 0
       /\ \/ in.financial_data.eps = <<>>
          \/ in.financial_data.eps[1] > 0 /\ in.sector_relative = <<>>
    \/ in.financial_data.pbr = <<>>
    \/ in.financial_data.pbr[1] > 0 /\ in.financial_data.bps = <<>>
    \/ in.price_data.week52_high = <<>>
    \/ in.price_data.week52_high[1] > 0 /\ in.price_data.week52_low = <<>>
    \/ in.market_context.market_strength = <<>>
    \/ in.analyst_target = <<>>

\* the value of an optional that is read, or 0 for a None that is never read
ValueOf(x) == IF x = <<>> THEN 0 ELSE x[1]

Values(in) ==
    [current_price |-> in.current_price,
     financial_data |-> [per |-> ValueOf(in.financial_data.per),
                         eps |-> ValueOf(in.financial_data.eps),
                         pbr |-> ValueOf(in.financial_data.pbr),
                         bps |-> ValueOf(in.financial_data.bps)],
     sector_relative |-> ValueOf(in.sector_relative),
     price_data |-> [week52_high |-> ValueOf(in.price_data.week52_high),
                     week52_low |-> ValueOf(in.price_data.week52_low)],
     analyst_target |-> ValueOf(in.analyst_target),
     market_context |-> [market_trend |-> in.market_context.market_trend,
                         market_strength |-> ValueOf(in.market_context.market_strength),
                         volatility_level |-> in.market_context.volatility_level]]

\* the call ended with an exception instead of a return value
RaisedTypeError ==
    [raised |-> <<"TypeError">>, conservative |-> <<>>, neutral |-> <<>>,
     aggressive |-> <<>>, current_price |-> 0, market_adjustment_factor |-> 0]

\* inp: current_price and the fields of the five optional dicts; up: the
\* direction round() takes at a tie, per rounded value.  upside_potential and
\* methods repeat the values below and are left out.
calculate_target_prices(inp, up) ==
    IF RaisesTypeError(inp) THEN RaisedTypeError
    ELSE
    LET in == Values(inp)
        per_based_targets == calculate_per_based_target(in.financial_data, in.sector_relative)
        pbr_based_targets == calculate_pbr_based_target(in.financial_data)
        technical_targets == calculate_technical_target(in.current_price, in.price_data)
        analyst_target == in.analyst_target
        market_adjustment == calculate_market_adjustment(in.market_context)
        conservative ==
            calculate_conservative_target(in.current_price, per_based_targets,
                pbr_based_targets, technical_targets, analyst_target, market_adjustment)
        neutral ==
            calculate_neutral_target(in.current_price, per_based_targets,
                pbr_based_targets, technical_targets, analyst_target, market_adjustment)
        aggressive ==
            calculate_aggressive_target(in.current_price, per_based_targets,
                pbr_based_targets, technical_targets, analyst_target, market_adjustment)
    IN  [raised |-> <<>>,
         conservative |-> RoundedPrice(conservative, up[1]),
         neutral |-> RoundedPrice(neutral, up[2]),
         aggressive |-> RoundedPrice(aggressive, up[3]),
         current_price |-> in.current_price,
         market_adjustment_factor |-> RoundFloat(market_adjustment, 10, up[4])]

(***************************************************************************)
(* Inputs of calculate_target_prices: every combination of a few values of *)
(* each field, and the combinations of None values on one set of values.   *)
(***************************************************************************)
FinancialData ==
    {[per |-> <<f[1]>>, eps |-> <<f[2]>>, pbr |-> <<g[1]>>, bps |-> <<g[2]>>] :
        f \in {<<0, 0>>, <<1, 10>>, <<2, 25>>, <<-1, 10>>},
        g \in {<<0, 0>>, <<1, 40>>, <<1, 80>>}}
PriceData ==
    {[week52_high |-> <<h[1]>>, week52_low |-> <<h[2]>>] :
        h \in {<<0, 0>>, <<60, 10>>, <<40, 10>>, <<60, 0>>}}
MarketContexts ==
    [market_trend : {"bullish", "neutral", "bearish"},
     market_strength : {<<0>>, <<30>>, <<50>>, <<57>>, <<80>>, <<100>>},
     volatility_level : {"high", "medium", "low"}]
ValueInputs ==
    [current_price : {11, 20, 50},
     financial_data : FinancialData,
     sector_relative : {<<5>>, <<10>>, <<15>>},
     price_data : PriceData,
     analyst_target : {<<0>>, <<30>>, <<100>>},
     market_context : MarketContexts]
NoneInputs ==
    [current_price : {20},
     financial_data : [per : {<<>>, <<0>>, <<1>>}, eps : {<<>>, <<10>>},
                       pbr : {<<>>, <<1>>}, bps : {<<>>, <<40>>}],
     sector_relative : {<<>>, <<10>>},
     price_data : [week52_high : {<<>>, <<60>>}, week52_low : {<<>>, <<10>>}],
     analyst_target : {<<>>, <<30>>},
     market_context : [market_trend : {"neutral"}, market_strength : {<<>>, <<50>>},
                       volatility_level : {"medium"}]]
TargetInputs == ValueInputs \cup NoneInputs

(***************************************************************************)
(* main.py, generate_report: the risk score taken from the ensemble result *)
(* and handed to generate_trading_signals, in centi-points.                *)
(***************************************************************************)
\* ai_risk_score = ai_result.get("risk_score", 50)
ai_risk_score(ai_result) ==
    IF ai_result.risk_score = <<>> THEN 5000 ELSE ai_result.risk_score[1]

(***************************************************************************)
(* State.                                                                  *)
(*   op, pc        the call being made and its position                    *)
(*   results       the argument of a direct call of ensemble_vote          *)
(*   gpt4_task, claude_task   the two coroutines handed to asyncio.gather: *)
(*                 st is "created", "running", "returned" or "raised",     *)
(*                 val the value returned (None or Some(result))           *)
(*   ensemble_result   <<>> until the call returns, then <<its result>>    *)
(*   risk_input, risk_result       calculate_total_risk_score              *)
(*   target_input, target_result   calculate_target_prices                 *)
(*   signal_input, signal_result   generate_trading_signals                *)
(*   cache_input, cache_ttl          calculate_ttl (cache.py)                *)
(*   token_cache     _token_cache of kis_data.py: <<>> while empty         *)
(*   caller_pc       where each caller of get_access_token stands          *)
(*   issued          the number of token requests sent so far              *)
(*   clock           datetime.now(), in ticks                              *)
(***************************************************************************)
VARIABLES op, pc, results, gpt4_task, claude_task, ensemble_result,
          risk_input, risk_result, target_input, target_result,
          signal_input, signal_result, cache_input, cache_ttl,
          token_cache, caller_pc, issued, clock

ensemble_vars == <<op, pc, results, gpt4_task, claude_task, ensemble_result>>
risk_vars == <<risk_input, risk_result>>
target_vars == <<target_input, target_result>>
signal_vars == <<signal_input, signal_result>>
cache_vars == <<cache_input, cache_ttl>>
token_vars == <<token_cache, caller_pc, issued, clock>>
vars == <<op, pc, results, gpt4_task, claude_task, ensemble_result,
          risk_input, risk_result, target_input, target_result,
          signal_input, signal_result, cache_input, cache_ttl,
          token_cache, caller_pc, issued, clock>>

Task(st, val) == [st |-> st, val |-> val]

EnsembleIdle ==
    /\ op = "none" /\ pc = "done" /\ results = <<>>
    /\ gpt4_task = Task("created", None) /\ claude_task = Task("created", None)
    /\ ensemble_result = <<>>
RiskIdle == risk_input = <<>> /\ risk_result = <<>>
TargetIdle == target_input = <<>> /\ target_result = <<>>
SignalIdle == signal_input = <<>> /\ signal_result = <<>>
CacheIdle == cache_input = <<>> /\ cache_ttl = <<>>
TokenIdle == token_cache = <<>> /\ caller_pc = <<>> /\ issued = 0 /\ clock = 0

(***************************************************************************)
(* Specification Spec: the two entry points of ai_ensemble.py.             *)
(***************************************************************************)
Init ==
    /\ pc = "start"
    /\ gpt4_task = Task("created", None) /\ claude_task = Task("created", None)
    /\ ensemble_result = <<>>
    /\ \/ op = "analyze_with_ensemble" /\ results = <<>>
       \/ op = "ensemble_vote" /\ results \in ListsUpTo(VoteInputs, MaxModels)
    /\ RiskIdle /\ TargetIdle /\ SignalIdle /\ CacheIdle /\ TokenIdle

\* a direct call of ensemble_vote(results)
CallEnsembleVote ==
    /\ op = "ensemble_vote" /\ pc = "start"
    /\ \E recOrder \in Orders({results[i].recommendation : i \in DOMAIN results}),
          riskOrder \in Orders({results[i].risk_level : i \in DOMAIN results}) :
          ensemble_result' = Some(ensemble_vote(results, recOrder, riskOrder))
    /\ pc' = "done"
    /\ UNCHANGED <<op, results, gpt4_task, claude_task>>
    /\ UNCHANGED <<risk_vars, target_vars, signal_vars, cache_vars, token_vars>>

\* lines 1035-1046: both coroutines are created and handed to asyncio.gather,
\* which schedules them; analyze_with_ensemble waits on the gather
StartGather ==
    /\ op = "analyze_with_ensemble" /\ pc = "start"
    /\ gpt4_task' = Task("running", None)
    /\ claude_task' = Task("running", None)
    /\ pc' = "gather"
    /\ UNCHANGED <<op, results, ensemble_result>>
    /\ UNCHANGED <<risk_vars, target_vars, signal_vars, cache_vars, token_vars>>

\* analyze_with_gpt4 returns its normalised result (line 485)
Gpt4Succeed ==
    /\ gpt4_task.st = "running"
    /\ \E r \in TaskResults("gpt-4-turbo") : gpt4_task' = Task("returned", Some(r))
    /\ UNCHANGED <<op, pc, results, claude_task, ensemble_result>>
    /\ UNCHANGED <<risk_vars, target_vars, signal_vars, cache_vars, token_vars>>

\* analyze_with_gpt4 catches an error of the API call or of the parsing and
\* returns None (lines 487-489)
Gpt4ReturnNone ==
    /\ gpt4_task.st = "running"
    /\ gpt4_task' = Task("returned", None)
    /\ UNCHANGED <<op, pc, results, claude_task, ensemble_result>>
    /\ UNCHANGED <<risk_vars, target_vars, signal_vars, cache_vars, token_vars>>

\* analyze_with_gpt4 raises: lines 181-428 run outside its try block
Gpt4Raise ==
    /\ gpt4_task.st = "running"
    /\ gpt4_task' = Task("raised", None)
    /\ UNCHANGED <<op, pc, results, claude_task, ensemble_result>>
    /\ UNCHANGED <<risk_vars, target_vars, signal_vars, cache_vars, token_vars>>

\* analyze_with_claude returns its normalised result (line 818)
ClaudeSucceed ==
    /\ claude_task.st = "running"
    /\ \E r \in TaskResults("claude-3.5-sonnet") : claude_task' = Task("returned", Some(r))
    /\ UNCHANGED <<op, pc, results, gpt4_task, ensemble_result>>
    /\ UNCHANGED <<risk_vars, target_vars, signal_vars, cache_vars, token_vars>>

\* analyze_with_claude catches an error and returns None (lines 820-822)
ClaudeReturnNone ==
    /\ claude_task.st = "running"
    /\ claude_task' = Task("returned", None)
    /\ UNCHANGED <<op, pc, results, gpt4_task, ensemble_result>>
    /\ UNCHANGED <<risk_vars, target_vars, signal_vars, cache_vars, token_vars>>

\* analyze_with_claude raises: lines 514-754 run outside its try block
ClaudeRaise ==
    /\ claude_task.st = "running"
    /\ claude_task' = Task("raised", None)
    /\ UNCHANGED <<op, pc, results, gpt4_task, ensemble_result>>
    /\ UNCHANGED <<risk_vars, target_vars, signal_vars, cache_vars, token_vars>>

\* asyncio.gather (return_exceptions left False) delivers both values once
\* both coroutines have returned; lines 1052-1109 then run to the return
GatherReturn ==
    /\ pc = "gather"
    /\ gpt4_task.st = "returned" /\ claude_task.st = "returned"
    /\ LET valid_results == gpt4_task.val \o claude_task.val
       IN  \E recOrder \in Orders({valid_results[i].recommendation : i \in DOMAIN valid_results}),
              riskOrder \in Orders({valid_results[i].risk_level : i \in DOMAIN valid_results}) :
              ensemble_result' =
                  Some(CombineResults(gpt4_task.val, claude_task.val, recOrder, riskOrder))
    /\ pc' = "done"
    /\ UNCHANGED <<op, results, gpt4_task, claude_task>>
    /\ UNCHANGED <<risk_vars, target_vars, signal_vars, cache_vars, token_vars>>

\* asyncio.gather propagates the first exception raised by a coroutine at
\* once, without waiting for the other one; the except clause of line 1048
\* sets both results to None and lines 1052-1070 return
GatherRaise ==
    /\ pc = "gather"
    /\ gpt4_task.st = "raised" \/ claude_task.st = "raised"
    /\ ensemble_result' = Some(CombineResults(None, None, <<>>, <<>>))
    /\ pc' = "done"
    /\ UNCHANGED <<op, results, gpt4_task, claude_task>>
    /\ UNCHANGED <<risk_vars, target_vars, signal_vars, cache_vars, token_vars>>

Next ==
    \/ CallEnsembleVote
    \/ StartGather
    \/ Gpt4Succeed \/ Gpt4ReturnNone \/ Gpt4Raise
    \/ ClaudeSucceed \/ ClaudeReturnNone \/ ClaudeRaise
    \/ GatherReturn
    \/ GatherRaise

Spec == Init /\ [][Next]_vars

(***************************************************************************)
(* Properties of ai_ensemble.py (specification Spec).                      *)
(***************************************************************************)
Returned == pc = "done" /\ ensemble_result # <<>>
Result == ensemble_result[1]

TaskSucceeded(t) == t.st = "returned" /\ t.val # None
TaskFailed(t) == t.st = "raised" \/ (t.st = "returned" /\ t.val = None)

\* the list of model results the returned ensemble result was computed from
\* when every model task has returned (directly handed to ensemble_vote, or
\* collected by analyze_with_ensemble)
Combined ==
    IF op = "ensemble_vote" THEN results
    ELSE gpt4_task.val \o claude_task.val
Voted ==
    /\ Returned
    /\ op = "analyze_with_ensemble" =>
           gpt4_task.st = "returned" /\ claude_task.st = "returned"

\* C1: in analyze_with_ensemble, when exactly one of the two model tasks
\* fails (returns None or raises) and the other succeeds, the returned
\* result is the successful model's result on the N=1 path (confidence 50),
\* not the all-models-failed sentinel.
C1_OneFailureFallsBack ==
    (Returned /\ op = "analyze_with_ensemble") =>
        /\ (TaskFailed(gpt4_task) /\ TaskSucceeded(claude_task)) =>
               Result = SingleResult(claude_task.val[1])
        /\ (TaskSucceeded(gpt4_task) /\ TaskFailed(claude_task)) =>
               Result = SingleResult(gpt4_task.val[1])

\* C2 (as stated): with zero successful model results the returned value is
\* the sentinel hold / medium / 50 / confidence 0 with an error field set,
\* for ensemble_vote([]) and for analyze_with_ensemble when both tasks fail.
NoModelSucceeded ==
    \/ op = "ensemble_vote" /\ results = <<>>
    \/ op = "analyze_with_ensemble" /\ TaskFailed(gpt4_task) /\ TaskFailed(claude_task)
IsSentinel(r) ==
    /\ r.recommendation = "hold" /\ r.risk_level = "medium"
    /\ r.evaluation_score = 5000 /\ r.confidence_score = 0
C3_SingleModelPassThrough ==
    (Voted /\ Len(Combined) = 1) =>
        /\ Result.confidence_score = 5000
        /\ Result.recommendation = Combined[1].recommendation
        /\ Result.risk_level = Combined[1].risk_level
        /\ Result.evaluation_score = 100 * Combined[1].evaluation_score

RecVotes == [i \in DOMAIN Combined |-> Combined[i].recommendation]
RiskVotes == [i \in DOMAIN Combined |-> Combined[i].risk_level]

\* v has the highest number of occurrences in votes
IsPlurality(v, votes) ==
    /\ v \in SeqSet(votes)
    /\ \A w \in SeqSet(votes) : SeqCount(votes, w) <= SeqCount(votes, v)

\* C8: for N >= 2 model results the recommendation (and likewise the risk
\* level) of ensemble_vote is a value with a maximal number of occurrences
\* among the inputs; it is one of the input values, hence in
\* {buy, sell, hold} (resp. {low, medium, high}) whenever every input is.
C8_PluralityWins ==
    (Voted /\ Len(Combined) >= 2) =>
        /\ IsPlurality(Result.recommendation, RecVotes)
        /\ IsPlurality(Result.risk_level, RiskVotes)
        /\ SeqSet(RecVotes) \subseteq Recommendations =>
               Result.recommendation \in Recommendations
        /\ SeqSet(RiskVotes) \subseteq RiskLevels =>
               Result.risk_level \in RiskLevels
C8_Witness ==
    /\ Voted /\ op = "ensemble_vote"
    /\ RecVotes = <<"sell", "buy", "buy">> /\ Result.recommendation = "buy"
    /\ RiskVotes = <<"low", "high", "high">> /\ Result.risk_level = "high"

\* the value, among those with the highest count, that occurs first in the list
FirstSeenPlurality(votes) ==
    votes[CHOOSE i \in DOMAIN votes :
             /\ IsPlurality(votes[i], votes)
             /\ \A j \in 1..(i - 1) : ~IsPlurality(votes[j], votes)]

\* C9: when two or more recommendations (or risk levels) tie for the highest
\* vote count in ensemble_vote, the winner is the value that appears first
\* in the input list.
C9_TieFirstSeen ==
    (Voted /\ Len(Combined) >= 2) =>
        /\ Result.recommendation = FirstSeenPlurality(RecVotes)
        /\ Result.risk_level = FirstSeenPlurality(RiskVotes)

\* the weight table as the claim states it, in tenths
StatedWeight(m) ==
    CASE m = "gpt-4-turbo" -> 6
      [] m = "claude-3.5-sonnet" -> 4
      [] OTHER -> 5
StatedWeightedSum == SeqSum([i \in DOMAIN Combined |->
                                Combined[i].evaluation_score * StatedWeight(Combined[i].model)])
StatedWeightSum == SeqSum([i \in DOMAIN Combined |-> StatedWeight(Combined[i].model)])
StatedRiskSum == SeqSum([i \in DOMAIN Combined |->
                            IF Combined[i].risk_score = <<>> THEN 50
                            ELSE Combined[i].risk_score[1]])
Abs(x) == IF x < 0 THEN 0 - x ELSE x

\* C10 (as stated): the evaluation score of ensemble_vote equals
\* sum(score_i * w_i) / sum(w_i) with w = 0.6 / 0.4 / 0.5, and its risk score
\* is the unweighted arithmetic mean of the inputs' risk scores.
C10_ExactWeightedMean ==
    (Voted /\ Len(Combined) >= 2) =>
        /\ Result.evaluation_score * StatedWeightSum = 100 * StatedWeightedSum
        /\ Result.risk_score[1] * Len(Combined) = 100 * StatedRiskSum

\* C10 (amended): the evaluation score of ensemble_vote is
\* sum(score_i * w_i) / sum(w_i), with w = 0.6 for gpt-4-turbo, 0.4 for
\* claude-3.5-sonnet and 0.5 for any other model id, rounded to two decimals
\* (80 at .6 and 70 at .4 give 76.0); for scores with at most two decimals it
\* lies between the smallest and largest input score; the risk score is the
\* unweighted arithmetic mean of the inputs' risk scores rounded to two
\* decimals.
C10_RoundedWeightedMean ==
    (Voted /\ Len(Combined) >= 2) =>
        /\ 2 * Abs(Result.evaluation_score * StatedWeightSum - 100 * StatedWeightedSum)
               <= StatedWeightSum
        /\ \E i \in DOMAIN Combined :
               100 * Combined[i].evaluation_score <= Result.evaluation_score
        /\ \E i \in DOMAIN Combined :
               100 * Combined[i].evaluation_score >= Result.evaluation_score
        /\ 2 * Abs(Result.risk_score[1] * Len(Combined) - 100 * StatedRiskSum)
               <= Len(Combined)
        /\ ( /\ Len(Combined) = 2
             /\ Combined[1].model = "gpt-4-turbo" /\ Combined[1].evaluation_score = 80
             /\ Combined[2].model = "claude-3.5-sonnet" /\ Combined[2].evaluation_score = 70 )
           => Result.evaluation_score = 7600
C10_Witness ==
    /\ Voted /\ op = "ensemble_vote" /\ Len(results) = 2
    /\ results[1].model = "gpt-4-turbo" /\ results[1].evaluation_score = 80
    /\ results[2].model = "other-model" /\ results[2].evaluation_score = 70
    /\ Result.evaluation_score = 7545
    /\ results[1].risk_score = <<20>> /\ results[2].risk_score = <<>>
    /\ Result.risk_score = <<3500>>

\* ensemble_vote ran its vote arithmetic on the N >= 1 results of Combined
VoteRan ==
    /\ Voted
    /\ IF op = "ensemble_vote" THEN Len(results) >= 1 ELSE Len(Combined) = 2

\* the count of the most frequent value of a list
MostFrequentCount(s) ==
    CHOOSE c \in 1..Len(s) :
        /\ \E i \in DOMAIN s : SeqCount(s, s[i]) = c
        /\ \A i \in DOMAIN s : SeqCount(s, s[i]) <= c

StatedRiskScores(rs) ==
    [i \in DOMAIN rs |-> IF rs[i].risk_score = <<>> THEN 50 ELSE rs[i].risk_score[1]]
StatedOutlooks(rs, bucket) ==
    [i \in DOMAIN rs |->
        LET o == rs[i].timeframe_analysis[1][bucket]
        IN  IF o = "" THEN "neutral" ELSE o]

\* the five agreement terms, in 1/10000 of a point; the percentages times N
\* (times 3N for the timeframe mean) so that they stay whole numbers
StatedRecAgreementN(rs) ==
    1000000 * MostFrequentCount([i \in DOMAIN rs |-> rs[i].recommendation])
StatedRiskAgreementN(rs) ==
    1000000 * MostFrequentCount([i \in DOMAIN rs |-> rs[i].risk_level])
StatedScoreAgreement(rs) ==
    Max2(0, 1000000 - np_std([i \in DOMAIN rs |-> rs[i].evaluation_score]))
StatedRiskScoreAgreement(rs) ==
    Max2(0, 1000000 - (IF Len(rs) > 1 THEN np_std(StatedRiskScores(rs)) ELSE 0))
StatedTimeframeAgreement3N(rs) ==
    IF \A i \in DOMAIN rs : rs[i].timeframe_analysis # <<>>
    THEN 1000000 * (MostFrequentCount(StatedOutlooks(rs, "short_term"))
                    + MostFrequentCount(StatedOutlooks(rs, "medium_term"))
                    + MostFrequentCount(StatedOutlooks(rs, "long_term")))
    ELSE 500000 * 3 * Len(rs)

\* 0.30 rec + 0.25 score + 0.20 risk level + 0.15 risk score + 0.10 timeframe,
\* in 1/10000 of a point, times 300 N
StatedConfidence300N(rs) ==
    90 * StatedRecAgreementN(rs)
    + 75 * Len(rs) * StatedScoreAgreement(rs)
    + 60 * StatedRiskAgreementN(rs)
    + 45 * Len(rs) * StatedRiskScoreAgreement(rs)
    + 10 * StatedTimeframeAgreement3N(rs)

\* C11: for every list of N >= 1 model results with scores in 0..100 the
\* confidenceScore of ensemble_vote lies in 0..100 and equals 0.30 *
\* recommendation agreement % + 0.25 * max(0, 100 - stdev(evaluation scores))
\* + 0.20 * risk level agreement % + 0.15 * max(0, 100 - stdev(risk scores))
\* + 0.10 * timeframe agreement %.
C11_ConfidenceExact ==
    VoteRan =>
        /\ Result.confidence_score \in 0..10000
        /\ Result.confidence_score * 30000 * Len(Combined)
               = StatedConfidence300N(Combined)

\* C11 as amended: the confidenceScore lies in 0..100 and is that weighted
\* sum rounded to two decimals (within 0.005 of it), the standard deviations
\* being population deviations, a missing riskScore counting as 50 and the
\* timeframe agreement being 50 when a result has no timeframe analysis.
C11_ConfidenceRounded ==
    VoteRan =>
        /\ Result.confidence_score \in 0..10000
        /\ 2 * Abs(Result.confidence_score * 30000 * Len(Combined)
                   - StatedConfidence300N(Combined))
               <= 30000 * Len(Combined)
C11_Witness ==
    /\ VoteRan
    /\ op = "ensemble_vote"
    /\ Len(results) = 2
    /\ results[1].risk_score = <<20>> /\ results[2].risk_score = <<>>
    /\ results[1].evaluation_score = 80 /\ results[2].evaluation_score = 70
    /\ Result.confidence_score = 9150

Settled(t) == t.st \in {"returned", "raised"}

\* C12: the fan-in is a barrier: analyze_with_ensemble returns its result
\* only after both model tasks have settled (returned a result, returned no
\* result, or raised); it never returns while one of them is still running.
C12_ReturnsAfterBothSettled ==
    (Returned /\ op = "analyze_with_ensemble") =>
        (Settled(gpt4_task) /\ Settled(claude_task))

\* analyze_with_ensemble returned on its N=1 path: both tasks returned and
\* exactly one of them returned a result
SingleModelReturned ==
    /\ Returned /\ op = "analyze_with_ensemble"
    /\ gpt4_task.st = "returned" /\ claude_task.st = "returned"
    /\ Len(Combined) = 1

\* C16: the N=1 pass-through is verbatim: the result returned when only one
\* model succeeded carries that model's riskScore unchanged, so the risk
\* score the report layer feeds into generate_trading_signals equals the
\* successful model's riskScore.
C16_SingleModelRiskScore ==
    SingleModelReturned =>
        /\ Result.risk_score = <<100 * Combined[1].risk_score[1]>>
        /\ ai_risk_score(Result) = 100 * Combined[1].risk_score[1]

(***************************************************************************)
(* Specification SpecLive: analyze_with_ensemble under the scheduling of    *)
(* the event loop.  The called function starts, and the coroutine awaiting *)
(* asyncio.gather is resumed once gather has the two values or an          *)
(* exception to deliver.  A model task awaits a remote API with no timeout *)
(* of its own (lines 434, 759), so nothing makes it settle: its steps      *)
(* carry no fairness.                                                      *)
(***************************************************************************)
InitLive == Init /\ op = "analyze_with_ensemble"

NextLive ==
    \/ StartGather
    \/ Gpt4Succeed \/ Gpt4ReturnNone \/ Gpt4Raise
    \/ ClaudeSucceed \/ ClaudeReturnNone \/ ClaudeRaise
    \/ GatherReturn
    \/ GatherRaise

SpecLive ==
    /\ InitLive /\ [][NextLive]_vars
    /\ WF_vars(StartGather) /\ WF_vars(GatherReturn) /\ WF_vars(GatherRaise)

\* C13: the fan-in never blocks indefinitely on a single model: if one model
\* task never settles while the other settles, analyze_with_ensemble still
\* eventually returns a result.
C13_NeverBlocksOnOneModel ==
    /\ ([]~Settled(gpt4_task) /\ <>Settled(claude_task)) => <>Returned
    /\ ([]~Settled(claude_task) /\ <>Settled(gpt4_task)) => <>Returned

(***************************************************************************)
(* Specification SpecRisk: calculate_total_risk_score applied to an input. *)
(***************************************************************************)
InitRisk ==
    /\ risk_input \in RiskInputs
    /\ risk_result = <<>>
    /\ EnsembleIdle /\ TargetIdle /\ SignalIdle /\ CacheIdle /\ TokenIdle

CalculateTotalRiskScore ==
    /\ risk_input # <<>> /\ risk_result = <<>>
    /\ \E up_total \in {0, 1}, up_news \in {0, 1} :
           risk_result' = <<calculate_total_risk_score(risk_input, up_total, up_news)>>
    /\ UNCHANGED <<risk_input, ensemble_vars, target_vars, signal_vars, cache_vars, token_vars>>

NextRisk == CalculateTotalRiskScore

SpecRisk == InitRisk /\ [][NextRisk]_vars

RiskReturned == risk_result # <<>>
Risk == risk_result[1]

BreakdownSum ==
    Risk.breakdown.news_sentiment + Risk.breakdown.volatility
    + Risk.breakdown.financial + Risk.breakdown.market + Risk.breakdown.liquidity

WithinCaps ==
    /\ Risk.breakdown.news_sentiment \in 0..3000
    /\ Risk.breakdown.volatility \in 0..2500
    /\ Risk.breakdown.financial \in 0..2000
    /\ Risk.breakdown.market \in 0..1500
    /\ Risk.breakdown.liquidity \in 0..1000

\* C4: for every input of calculate_total_risk_score each sub-score stays
\* within its cap (news 0..30, volatility 0..25, financial 0..20, market
\* 0..15, liquidity 0..10), totalScore is their sum and lies in 0..100.
C4_SubScoresSumToTotal ==
    RiskReturned =>
        /\ WithinCaps
        /\ Risk.total_score = BreakdownSum
        /\ Risk.total_score \in 0..10000

\* C4 as amended: each returned sub-score stays within its cap, totalScore
\* lies in 0..100, and, every returned value being rounded to two decimals on
\* its own, totalScore is the sum of the returned sub-scores to within one
\* hundredth of a point.
C4_SubScoresWithinCaps ==
    RiskReturned =>
        /\ WithinCaps
        /\ Abs(Risk.total_score - BreakdownSum) <= 1
        /\ Risk.total_score \in 0..10000
C4_Witness ==
    /\ RiskReturned
    /\ risk_input.news_trend = NewsTrend(7, 20000, -100, "worsened")
    /\ Risk.breakdown.news_sentiment = 3000
    /\ Risk.breakdown.volatility = 2500
    /\ Risk.breakdown.financial = 2000
    /\ Risk.breakdown.market = 1500
    /\ Risk.total_score = 9600

\* C5: the riskLevel of a RiskScoreBreakdown is 'low' exactly when
\* totalScore < 30, 'medium' exactly when 30 <= totalScore < 60 and 'high'
\* exactly when totalScore >= 60.
C5_LevelMatchesTotal ==
    RiskReturned =>
        /\ (Risk.risk_level = "low") <=> (Risk.total_score < 3000)
        /\ (Risk.risk_level = "medium") <=>
               (Risk.total_score >= 3000 /\ Risk.total_score < 6000)
        /\ (Risk.risk_level = "high") <=> (Risk.total_score >= 6000)

\* the unrounded sub-scores of an input; Without: the input with a field absent
VolatilityOf(in) ==
    calculate_volatility_risk(in.current_price, in.week52_high, in.week52_low,
                              in.avg_volume, in.current_volume, in.bollinger_position)
FinancialOf(in) ==
    calculate_financial_risk(in.per, in.roe, in.debt_ratio, in.operating_margin)
MarketOf(in) ==
    calculate_market_risk(in.kospi_change, in.sector_relative_strength,
                          in.foreign_ownership_change, in.program_trading_net)
LiquidityOf(in) ==
    calculate_liquidity_risk(in.current_volume, in.avg_volume, in.market_cap, in.free_float)

OptionalFields ==
    {"current_price", "week52_high", "week52_low", "avg_volume", "current_volume",
     "per", "roe", "debt_ratio", "operating_margin", "market_cap", "free_float",
     "kospi_change", "sector_relative_strength", "foreign_ownership_change",
     "program_trading_net"}
Without(in, f) == [in EXCEPT ![f] = <<>>]

NewsAbsent(in) == in.news_trend = <<>> \/ in.news_trend[1].total_count = 0
FactsAbsent(in) ==
    /\ \A f \in OptionalFields : in[f] = <<>>
    /\ in.bollinger_position = "absent"

InitTarget ==
    /\ target_input \in TargetInputs
    /\ target_result = <<>>
    /\ EnsembleIdle /\ RiskIdle /\ SignalIdle /\ CacheIdle /\ TokenIdle

CalculateTargetPrices ==
    /\ target_input # <<>> /\ target_result = <<>>
    /\ \E up \in [1..4 -> {0, 1}] :
           target_result' = <<calculate_target_prices(target_input, up)>>
    /\ UNCHANGED <<target_input, ensemble_vars, risk_vars, signal_vars, cache_vars, token_vars>>

NextTarget == CalculateTargetPrices

SpecTarget == InitTarget /\ [][NextTarget]_vars

\* calculate_target_prices returned a TargetPriceSet
TargetReturned == target_result # <<>> /\ target_result[1].raised = <<>>
TargetPrices == target_result[1]
NoMethodHasData ==
    LET in == Values(target_input)
    IN  /\ calculate_per_based_target(in.financial_data, in.sector_relative).neutral = 0
        /\ calculate_pbr_based_target(in.financial_data).neutral = 0
        /\ calculate_technical_target(in.current_price, in.price_data).neutral = 0
        /\ in.analyst_target = 0

C7_ScenariosOrdered ==
    (/\ TargetReturned
     /\ TargetPrices.conservative # <<>>
     /\ TargetPrices.neutral # <<>>
     /\ TargetPrices.aggressive # <<>>)
    => /\ TargetPrices.conservative[1] <= TargetPrices.neutral[1]
       /\ TargetPrices.neutral[1] <= TargetPrices.aggressive[1]

\* the analyst opinion that safe_get_analyst_opinion substitutes when the
\* lookup fails: avg_target_price None
FallbackAnalystOpinion == target_input.analyst_target = <<>>

\* C15: calculate_target_prices never raises for missing or null optional
\* data: when financial ratios, the 52-week high or low or the analyst
\* average target price are absent or None (the fallback analyst opinion
\* included) it still returns the three scenario prices.
C15_NeverRaisesOnNone ==
    target_result # <<>> =>
        /\ TargetPrices.raised = <<>>
        /\ TargetPrices.conservative # <<>>
        /\ TargetPrices.neutral # <<>>
        /\ TargetPrices.aggressive # <<>>

(***************************************************************************)
(* trading_signal_generator.py.  Prices are whole won; the technical score *)
(* and the market favorability are held in tenths of a point, the overall  *)
(* risk in centi-points, the weighted total and the confidence in 1/10000  *)
(* of a point, the stop-loss in 1/100 won, the AI confidence in            *)
(* centi-points.  An optional value is <<>>                                *)
(* (None or a missing key) or <<v>>.  The reasoning text, the factor       *)
(* lists and the entry price range, which nothing else reads, are left out *)
(* of the result; of the echoed analysis breakdown it keeps risk_level and *)
(* ai_consensus.                                                           *)
(***************************************************************************)

\* x or d, for a number: None and 0 both give the default
OrNumber(x, d) == IF x = <<>> THEN d ELSE IF x[1] = 0 THEN d ELSE x[1]

\* x or d, for a string: None and "" both give the default
OrString(x, d) == IF x = <<>> THEN d ELSE IF x[1] = "" THEN d ELSE x[1]

\* the attractiveness that analyze_price_position derives from
\* upside_neutral = ((neutral / current_price) - 1) * 100
analyze_price_position(current_price, target_prices) ==
    LET neutral == OrNumber(target_prices.neutral, 0)
    IN  IF neutral <= 0 THEN [attractiveness |-> "low"]
        ELSE IF 100 * neutral >= 120 * current_price THEN [attractiveness |-> "high"]
        ELSE IF 100 * neutral >= 110 * current_price THEN [attractiveness |-> "moderate"]
        ELSE IF neutral >= current_price THEN [attractiveness |-> "low"]
        ELSE [attractiveness |-> "overvalued"]

RsiScore(rsi) == IF rsi < 30 THEN 70 ELSE IF rsi > 70 THEN 0 - 70 ELSE 0

MacdScore(macd) ==
    IF macd.histogram > 0 /\ macd.value > macd.signal THEN 60
    ELSE IF macd.histogram < 0 /\ macd.value < macd.signal THEN 0 - 60
    ELSE 0

BollingerScore(bb_position) ==
    CASE bb_position = "below_lower" -> 50
      [] bb_position = "above_upper" -> 0 - 50
      [] bb_position = "near_lower" -> 30
      [] bb_position = "near_upper" -> 0 - 30
      [] OTHER -> 0

\* the moving-average score is appended only for a cross
MovingAverageScores(ma_trend) ==
    CASE ma_trend = "golden_cross" -> <<50>>
      [] ma_trend = "dead_cross" -> <<0 - 50>>
      [] OTHER -> <<>>

\* score: round(avg_score, 1) in tenths; a mean of three or four multiples
\* of ten is never halfway between two tenths
analyze_technical_signals(indicators) ==
    LET rsi == OrNumber(indicators.rsi, 50)
        bb_position == OrString(indicators.bollinger_bands.position, "middle")
        ma_trend == OrString(indicators.moving_average_trend, "neutral")
        scores == <<RsiScore(rsi), MacdScore(indicators.macd),
                    BollingerScore(bb_position)>> \o MovingAverageScores(ma_trend)
        score == RoundFloat(10 * SeqSum(scores), Len(scores), 0)
    IN  [signal |-> IF score >= 400 THEN "strong_buy"
                    ELSE IF score >= 200 THEN "buy"
                    ELSE IF score >= 0 - 200 THEN "neutral"
                    ELSE IF score >= 0 - 400 THEN "sell"
                    ELSE "strong_sell",
         score |-> score]

\* overall_risk in centi-points
assess_risk_level(risk_scores, market_context) ==
    LET short_term_risk == OrNumber(risk_scores.short_term, 50)
        mid_term_risk == OrNumber(risk_scores.mid_term, 50)
        long_term_risk == OrNumber(risk_scores.long_term, 50)
        volatility_level == OrString(market_context.volatility_level, "medium")
        weighted == 40 * short_term_risk + 35 * mid_term_risk + 25 * long_term_risk
        adjusted == IF volatility_level = "high" THEN weighted + 1000
                    ELSE IF volatility_level = "low" THEN weighted - 500
                    ELSE weighted
        overall_risk == Max2(0, Min2(10000, adjusted))
    IN  [overall_risk |-> overall_risk,
         risk_grade |-> IF overall_risk >= 7000 THEN "high"
                        ELSE IF overall_risk >= 4000 THEN "moderate"
                        ELSE "low"]

\* score: round(favorability_score, 1) in tenths; with whole strength and
\* breadth the score is a whole number of tenths
assess_market_favorability(market_context) ==
    LET market_trend == OrString(market_context.market_trend, "neutral")
        market_strength == OrNumber(market_context.market_strength, 50)
        volatility_level == OrString(market_context.volatility_level, "medium")
        market_breadth_pct == OrNumber(market_context.market_breadth_pct, 50)
        trend == IF market_trend = "bullish" THEN 200
                 ELSE IF market_trend = "bearish" THEN 0 - 200 ELSE 0
        volatility == IF volatility_level = "low" THEN 100
                      ELSE IF volatility_level = "high" THEN 0 - 150 ELSE 0
        score == Max2(0, Min2(1000, 500 + trend + 3 * (market_strength - 50)
                                    + volatility + 2 * (market_breadth_pct - 50)))
    IN  [favorability |-> IF score >= 700 THEN "very_favorable"
                          ELSE IF score >= 550 THEN "favorable"
                          ELSE IF score >= 450 THEN "neutral"
                          ELSE IF score >= 300 THEN "unfavorable"
                          ELSE "very_unfavorable",
         score |-> score]

integrate_ai_recommendations(ai_recommendations) ==
    LET consensus == OrString(ai_recommendations.recommendation,
                              OrString(ai_recommendations.consensus, "hold"))
        confidence == OrNumber(ai_recommendations.confidence_score,
                               OrNumber(ai_recommendations.confidence, 5000))
    IN  IF consensus \in {"strong_buy", "buy"}
        THEN [signal |-> "buy", consensus |-> consensus, confidence |-> confidence,
              signal_strength |-> IF consensus = "strong_buy" THEN 80 ELSE 60]
        ELSE IF consensus \in {"strong_sell", "sell"}
        THEN [signal |-> "sell", consensus |-> consensus, confidence |-> confidence,
              signal_strength |-> IF consensus = "strong_sell" THEN 80 ELSE 60]
        ELSE [signal |-> "hold", consensus |-> consensus, confidence |-> confidence,
              signal_strength |-> 50]

AttractivenessScore(attractiveness) ==
    CASE attractiveness = "high" -> 80
      [] attractiveness = "moderate" -> 60
      [] attractiveness = "low" -> 40
      [] OTHER -> 20

\* total_score of synthesize_signals in 1/10000 of a point: the five scores
\* times the weights 0.25, 0.30, 0.20, 0.15 and 0.10
TotalScore(price_position, technical_signal, risk_assessment, market_favorability, ai_signal) ==
    2500 * AttractivenessScore(price_position.attractiveness)
    + 150 * (technical_signal.score + 1000)
    + 20 * (10000 - risk_assessment.overall_risk)
    + 150 * market_favorability.score
    + 1000 * ai_signal.signal_strength

FinalSignal_steep_hold(total_score) ==
    IF total_score >= Points(70)
    THEN [action |-> "buy", strength |-> "strong",
          confidence |-> Min2(Points(95), total_score)]
    ELSE IF total_score >= Points(55)
    THEN [action |-> "buy", strength |-> "moderate", confidence |-> total_score]
    ELSE IF total_score >= Points(45)
    THEN [action |-> "hold", strength |-> "neutral",
          confidence |-> Points(100) - 20 * Abs(total_score - Points(50))]
    ELSE IF total_score >= Points(30)
    THEN [action |-> "sell", strength |-> "moderate",
          confidence |-> Points(100) - total_score]
    ELSE [action |-> "sell", strength |-> "strong",
          confidence |-> Min2(Points(95), Points(100) - total_score)]

\* action, strength and confidence (1/10000 of a point) for a total
FinalSignal(total_score) ==
    IF total_score >= Points(70)
    THEN [action |-> "buy", strength |-> "strong",
          confidence |-> Min2(Points(95), total_score)]
    ELSE IF total_score >= Points(55)
    THEN [action |-> "buy", strength |-> "moderate", confidence |-> total_score]
    ELSE IF total_score >= Points(45)
    THEN [action |-> "hold", strength |-> "neutral",
          confidence |-> Points(100) - 2 * Abs(total_score - Points(50))]
    ELSE IF total_score >= Points(30)
    THEN [action |-> "sell", strength |-> "moderate",
          confidence |-> Points(100) - total_score]
    ELSE [action |-> "sell", strength |-> "strong",
          confidence |-> Min2(Points(95), Points(100) - total_score)]

\* confidence and total_score are returned rounded to one decimal (tenths);
\* up[1], up[2]: the direction round() takes at a tie
synthesize_signals(price_position, technical_signal, risk_assessment, market_favorability, ai_signal, up) ==
    LET total_score == TotalScore(price_position, technical_signal, risk_assessment,
                                  market_favorability, ai_signal)
        final == FinalSignal(total_score)
    IN  [action |-> final.action,
         strength |-> final.strength,
         confidence |-> RoundFloat(final.confidence, 1000, up[1]),
         total_score |-> RoundFloat(total_score, 1000, up[2])]

\* confidence in tenths of a point
determine_entry_strategy(final_signal, risk_assessment) ==
    LET action == final_signal.action
        strength == final_signal.strength
        confidence == final_signal.confidence
        risk_grade == risk_assessment.risk_grade
    IN  [timing |->
             IF action = "buy"
             THEN IF strength = "strong" /\ confidence >= 800 THEN "immediate"
                  ELSE IF strength = "moderate" \/ confidence >= 600 THEN "gradual"
                  ELSE "wait"
             ELSE IF action = "sell"
             THEN IF strength = "strong" THEN "immediate" ELSE "gradual"
             ELSE "wait",
         position_size |->
             IF action = "buy"
             THEN IF risk_grade = "low" /\ confidence >= 750 THEN "large"
                  ELSE IF risk_grade = "moderate" \/ confidence >= 600 THEN "medium"
                  ELSE "small"
             ELSE IF action = "sell"
             THEN IF risk_grade = "high" \/ strength = "strong" THEN "large"
                  ELSE "medium"
             ELSE "none"]

\* stop_loss in 1/100 won; the take-profit levels are the target prices
calculate_exit_points(current_price, target_prices, technical_indicators, risk_scores) ==
    LET lower_band98 ==
            IF technical_indicators.bollinger_bands.lower = <<>>
               \/ technical_indicators.bollinger_bands.lower[1] = 0
            THEN (98 * 95 * current_price) \div 100
            ELSE 98 * technical_indicators.bollinger_bands.lower[1]
        short_term_risk == OrNumber(risk_scores.short_term, 50)
        stop_loss == IF short_term_risk >= 70 THEN 95 * current_price
                     ELSE IF short_term_risk >= 40 THEN 93 * current_price
                     ELSE 90 * current_price
    IN  [stop_loss |-> Max2(stop_loss, lower_band98),
         take_profit_levels |-> target_prices]

\* round(stop_loss, 0) of a stop-loss held in 1/100 won, None unless positive
RoundedStopLoss(stop_loss, up) ==
    IF stop_loss > 0 THEN <<RoundFloat(stop_loss, 100, up)>> ELSE <<>>

\* up[1], up[2]: tie directions of synthesize_signals; up[3]: of the
\* rounded stop-loss.  exit_stop_loss is the stop-loss as calculate_exit_points
\* returned it (1/100 won), total the weighted total before rounding.
generate_trading_signals(in, up) ==
    LET price_position == analyze_price_position(in.current_price, in.target_prices)
        technical_signal == analyze_technical_signals(in.technical_indicators)
        risk_assessment == assess_risk_level(in.risk_scores, in.market_context)
        market_favorability == assess_market_favorability(in.market_context)
        ai_signal == integrate_ai_recommendations(in.ai_recommendations)
        final_signal == synthesize_signals(price_position, technical_signal,
                                           risk_assessment, market_favorability,
                                           ai_signal, up)
        entry_strategy == determine_entry_strategy(final_signal, risk_assessment)
        exit_points == calculate_exit_points(in.current_price, in.target_prices,
                                             in.technical_indicators, in.risk_scores)
    IN  [signal |-> final_signal.action,
         confidence |-> final_signal.confidence,
         strength |-> final_signal.strength,
         entry_timing |-> entry_strategy.timing,
         position_size |-> entry_strategy.position_size,
         stop_loss |-> RoundedStopLoss(exit_points.stop_loss, up[3]),
         take_profit |-> [target_1 |-> exit_points.take_profit_levels.conservative,
                          target_2 |-> exit_points.take_profit_levels.neutral,
                          target_3 |-> exit_points.take_profit_levels.aggressive],
         total_score |-> final_signal.total_score,
         total |-> TotalScore(price_position, technical_signal, risk_assessment,
                              market_favorability, ai_signal),
         risk_level |-> risk_assessment.overall_risk,
         ai_consensus |-> ai_signal,
         exit_stop_loss |-> exit_points.stop_loss]

\* inputs of generate_trading_signals
TargetPriceSets ==
    {[conservative |-> <<>>, neutral |-> <<>>, aggressive |-> <<>>],
     [conservative |-> <<85>>, neutral |-> <<90>>, aggressive |-> <<95>>],
     [conservative |-> <<100>>, neutral |-> <<105>>, aggressive |-> <<112>>],
     [conservative |-> <<105>>, neutral |-> <<115>>, aggressive |-> <<125>>],
     [conservative |-> <<110>>, neutral |-> <<130>>, aggressive |-> <<150>>]}

MacdSamples ==
    {[value |-> 2, signal |-> 1, histogram |-> 1],
     [value |-> 0 - 2, signal |-> 0 - 1, histogram |-> 0 - 1]}

\* the lower band lies below the price, or above it once the price has
\* fallen through the band
BollingerBands ==
    {[position |-> <<>>, lower |-> <<>>],
     [position |-> <<"near_lower">>, lower |-> <<99>>],
     [position |-> <<"below_lower">>, lower |-> <<103>>],
     [position |-> <<"above_upper">>, lower |-> <<70>>]}

TechnicalIndicators ==
    [rsi : {<<>>, <<25>>, <<75>>},
     macd : MacdSamples,
     bollinger_bands : BollingerBands,
     moving_average_trend : {<<>>, <<"golden_cross">>, <<"dead_cross">>}]

RiskScoreSets ==
    {[short_term |-> <<>>, mid_term |-> <<>>, long_term |-> <<>>],
     [short_term |-> <<0>>, mid_term |-> <<0>>, long_term |-> <<0>>],
     [short_term |-> <<10>>, mid_term |-> <<5>>, long_term |-> <<5>>],
     [short_term |-> <<45>>, mid_term |-> <<60>>, long_term |-> <<30>>],
     [short_term |-> <<95>>, mid_term |-> <<100>>, long_term |-> <<100>>]}

SignalMarketContexts ==
    {[market_trend |-> <<>>, market_strength |-> <<>>,
      volatility_level |-> <<>>, market_breadth_pct |-> <<>>],
     [market_trend |-> <<"neutral">>, market_strength |-> <<52>>,
      volatility_level |-> <<"medium">>, market_breadth_pct |-> <<47>>],
     [market_trend |-> <<"bullish">>, market_strength |-> <<80>>,
      volatility_level |-> <<"low">>, market_breadth_pct |-> <<70>>],
     [market_trend |-> <<"bullish">>, market_strength |-> <<63>>,
      volatility_level |-> <<"high">>, market_breadth_pct |-> <<55>>],
     [market_trend |-> <<"bearish">>, market_strength |-> <<20>>,
      volatility_level |-> <<"high">>, market_breadth_pct |-> <<10>>]}

Consensuses == {"strong_buy", "buy", "hold", "sell", "strong_sell"}

\* the last two: the result of a vote, and the sentinel that
\* analyze_with_ensemble returns when every model failed
AiRecommendations ==
    {[recommendation |-> <<c>>, consensus |-> <<>>,
      confidence_score |-> <<>>, confidence |-> <<>>] : c \in Consensuses}
    \cup {[recommendation |-> <<>>, consensus |-> <<>>,
           confidence_score |-> <<>>, confidence |-> <<>>],
          [recommendation |-> <<>>, consensus |-> <<"sell">>,
           confidence_score |-> <<>>, confidence |-> <<7000>>],
          [recommendation |-> <<"buy">>, consensus |-> <<>>,
           confidence_score |-> <<8500>>, confidence |-> <<>>],
          [recommendation |-> <<"hold">>, consensus |-> <<>>,
           confidence_score |-> <<0>>, confidence |-> <<>>]}

SignalInputs ==
    [current_price : {100},
     target_prices : TargetPriceSets,
     technical_indicators : TechnicalIndicators,
     risk_scores : RiskScoreSets,
     market_context : SignalMarketContexts,
     ai_recommendations : AiRecommendations]

(***************************************************************************)
(* Specification SpecSignal: generate_trading_signals applied to an input. *)
(***************************************************************************)
InitSignal ==
    /\ signal_input \in SignalInputs
    /\ signal_result = <<>>
    /\ EnsembleIdle /\ RiskIdle /\ TargetIdle /\ CacheIdle /\ TokenIdle

GenerateTradingSignals ==
    /\ signal_input # <<>> /\ signal_result = <<>>
    /\ \E up \in [1..3 -> {0, 1}] :
           signal_result' = <<generate_trading_signals(signal_input, up)>>
    /\ UNCHANGED <<signal_input, ensemble_vars, risk_vars, target_vars, cache_vars, token_vars>>

NextSignal == GenerateTradingSignals

SpecSignal == InitSignal /\ [][NextSignal]_vars

SignalReturned == signal_result # <<>>
TradingSignal == signal_result[1]

\* the input with the AI consensus replaced by c
WithConsensus(in, c) ==
    [in EXCEPT !.ai_recommendations.recommendation = <<c>>,
               !.ai_recommendations.consensus = <<>>]

\* the weighted total that synthesize_signals computes for an input
WeightedTotal(in) == generate_trading_signals(in, [i \in 1..3 |-> 0]).total

\* the AI-consensus sub-score as stated: sell and strong_sell inverted
StatedAiScore(consensus) ==
    CASE consensus = "strong_buy" -> 80
      [] consensus = "buy" -> 60
      [] consensus = "sell" -> 40
      [] consensus = "strong_sell" -> 20
      [] OTHER -> 50

\* C17: the AI-consensus sub-score that enters the weighted total is 80 for
\* strong_buy, 60 for buy, 50 for hold, 40 for sell and 20 for strong_sell,
\* and a sell consensus never yields a higher weighted total than a hold
\* consensus with all other sub-analyses equal.
C17_SellScoresBelowHold ==
    SignalReturned =>
        /\ TradingSignal.ai_consensus.signal_strength
               = StatedAiScore(TradingSignal.ai_consensus.consensus)
        /\ TradingSignal.ai_consensus.consensus = "sell"
               => TradingSignal.total <= WeightedTotal(WithConsensus(signal_input, "hold"))

\* C18: every trading signal that generate_trading_signals produces has its
\* signal (action) in {buy, sell, hold} and its strength in {weak, moderate,
\* strong}, whatever the weighted total.
C18_ActionAndStrengthDomains ==
    SignalReturned =>
        /\ TradingSignal.signal \in {"buy", "sell", "hold"}
        /\ TradingSignal.strength \in {"weak", "moderate", "strong"}

\* C19 as stated: the confidence of the trading signal (tenths of a point)
\* lies in [0,100] and never exceeds 95, whichever action is chosen.
C19_ConfidenceAtMost95 ==
    SignalReturned =>
        /\ TradingSignal.confidence >= 0
        /\ TradingSignal.confidence <= 950

\* C19 amended: the confidence lies in [0,100]; it never exceeds 95 for buy
\* and sell, while for hold it is 100 - 2*|total - 50|, between 90 and 100.
C19_ConfidenceByAction ==
    SignalReturned =>
        /\ TradingSignal.confidence >= 0
        /\ TradingSignal.confidence <= 1000
        /\ TradingSignal.signal \in {"buy", "sell"} => TradingSignal.confidence <= 950
        /\ TradingSignal.signal = "hold" =>
               /\ TradingSignal.confidence >= 900
               /\ Abs(TradingSignal.confidence * 1000
                      - (Points(100) - 2 * Abs(TradingSignal.total - Points(50)))) <= 500

\* a hold at a total of exactly 50: confidence 100
C19_Witness ==
    /\ SignalReturned
    /\ TradingSignal.signal = "hold"
    /\ TradingSignal.total = Points(50)
    /\ TradingSignal.confidence = 1000

\* C20: for a positive current price, every risk tier and every Bollinger
\* lower band, the stop-loss that calculate_exit_points returns is strictly
\* below the current price.
C20_StopLossBelowPrice ==
    (SignalReturned /\ signal_input.current_price > 0)
        => TradingSignal.exit_stop_loss < 100 * signal_input.current_price

\* a model result without timeframe outlook data: the key is missing, or
\* the dict is there with no outlook in any bucket
HasNoTimeframeData(r) ==
    \/ r.timeframe_analysis = NoTimeframe
    \/ r.timeframe_analysis = EmptyTimeframe

\* C21: in ensemble_vote, whenever at least one model result has no timeframe
\* outlook data (timeframe_analysis missing, or present but empty), the
\* timeframe-agreement dimension of the confidence score is 50.
C21_NoTimeframeDataGivesFifty ==
    (VoteRan /\ \E i \in DOMAIN Combined : HasNoTimeframeData(Combined[i]))
        => Result.agreement[1].timeframe_agreement_pct = 5000

\* C22: ensemble_vote is deterministic: a call returns what any other call
\* on the same results returns, whatever the iteration order of the sets of
\* distinct recommendations and risk levels.
C22_VoteIndependentOfSetOrder ==
    (Returned /\ op = "ensemble_vote") =>
        \A recOrder \in Orders({results[i].recommendation : i \in DOMAIN results}),
           riskOrder \in Orders({results[i].risk_level : i \in DOMAIN results}) :
            ensemble_vote(results, recOrder, riskOrder) = Result

\* the news-sentiment risk as stated, in 1/10000 of a point, for a negative
\* ratio in 1/100 of a percent and an average sentiment in hundredths:
\* 15*negativeRatio/100 + 10*(1 - avgSentiment)/2 + penalty, within [0,30]
StatedPenalty(change) ==
    CASE change = "worsened" -> 50000
      [] change = "unchanged" -> 25000
      [] OTHER -> 0
StatedNewsRisk(nt) ==
    LET sum == 15 * nt.negative_ratio + 5 * (10000 - 100 * nt.avg_sentiment_score)
                   + StatedPenalty(nt.recent_sentiment_change)
    IN  IF sum < 0 THEN 0 ELSE IF sum > 300000 THEN 300000 ELSE sum

HasNews == risk_input.news_trend # <<>> /\ risk_input.news_trend[1].total_count > 0

\* C23: the news-sentiment risk equals 15*negativeRatio/100 +
\* 10*(1 - avgSentiment)/2 + penalty (worsened 5, unchanged 2.5, improved 0)
\* clamped to [0,30]; for negativeRatio 40, avgSentiment -0.3 and a worsened
\* sentiment it is 17.5.  The breakdown carries it rounded to two decimals.
C23_NewsSentimentRisk ==
    (RiskReturned /\ HasNews) =>
        /\ calculate_news_sentiment_risk(risk_input.news_trend)
               = StatedNewsRisk(risk_input.news_trend[1])
        /\ 100 * Risk.breakdown.news_sentiment - StatedNewsRisk(risk_input.news_trend[1])
               \in (0 - 50)..50
        /\ risk_input.news_trend = NewsTrend(7, 4000, 0 - 30, "worsened")
               => Risk.breakdown.news_sentiment = 1750

C23_Witness ==
    /\ RiskReturned
    /\ risk_input.news_trend = NewsTrend(7, 4000, 0 - 30, "worsened")
    /\ calculate_news_sentiment_risk(risk_input.news_trend) = 175000
    /\ Risk.breakdown.news_sentiment = 1750

\* the foreign-ownership and program-trading penalties as stated, with
\* inclusive thresholds (changes in tenths of a percentage point)
StatedForeignPenalty(change) ==
    IF change = <<>> THEN 0
    ELSE IF change[1] <= 0 - 10 THEN Points(2)
    ELSE IF change[1] <= 0 - 5 THEN Points(1)
    ELSE 0
StatedProgramPenalty(net) ==
    IF net = <<>> THEN 0
    ELSE IF net[1] <= 0 - 500 THEN Points(2)
    ELSE IF net[1] <= 0 - 200 THEN Points(1)
    ELSE 0

\* C24: the market-risk thresholds are inclusive: calculate_market_risk adds
\* 2 when the foreign-ownership change is <= -1.0 and 1 when it is <= -0.5,
\* and adds 2 when program net trading is <= -500 and 1 when it is <= -200.
C24_InclusiveMarketThresholds ==
    RiskReturned =>
        /\ calculate_market_risk(<<>>, <<>>, risk_input.foreign_ownership_change, <<>>)
               = StatedForeignPenalty(risk_input.foreign_ownership_change)
        /\ calculate_market_risk(<<>>, <<>>, <<>>, risk_input.program_trading_net)
               = StatedProgramPenalty(risk_input.program_trading_net)
        /\ (risk_input.kospi_change = <<>> /\ risk_input.sector_relative_strength = <<>>)
               => 100 * Risk.breakdown.market
                      = StatedForeignPenalty(risk_input.foreign_ownership_change)
                        + StatedProgramPenalty(risk_input.program_trading_net)

\* the market context of the call and the adjustment factor computed from
\* it, in thousandths
MarketContextOf(in) == Values(in).market_context
MarketAdjustment == calculate_market_adjustment(MarketContextOf(target_input))

StatedOverallRisk(in) ==
    LET weighted == 40 * in.risk_scores.short_term[1] + 35 * in.risk_scores.mid_term[1]
                        + 25 * in.risk_scores.long_term[1]
        level == OrString(in.market_context.volatility_level, "medium")
        adjusted == IF level = "high" THEN weighted + 1000
                    ELSE IF level = "low" THEN weighted - 500 ELSE weighted
    IN  IF adjusted < 0 THEN 0 ELSE IF adjusted > 10000 THEN 10000 ELSE adjusted

RiskScoresGiven(in) ==
    /\ in.risk_scores.short_term # <<>>
    /\ in.risk_scores.mid_term # <<>>
    /\ in.risk_scores.long_term # <<>>

\* C27: assess_risk_level uses the supplied short/mid/long-term risk scores
\* as given for every value in [0,100], 0 included: overall_risk =
\* 0.4*short + 0.35*mid + 0.25*long, +10 for high and -5 for low market
\* volatility, clamped to [0,100].
C27_RiskScoresUsedAsGiven ==
    (SignalReturned /\ RiskScoresGiven(signal_input))
        => TradingSignal.risk_level = StatedOverallRisk(signal_input)

\* C28: the ai_consensus entry of the analysis breakdown reports the
\* ensemble's own confidence_score, the 0 of the all-models-failed sentinel
\* included.
C28_AiConfidenceReported ==
    (SignalReturned /\ signal_input.ai_recommendations.confidence_score # <<>>)
        => TradingSignal.ai_consensus.confidence
               = signal_input.ai_recommendations.confidence_score[1]

\* the stop-loss as stated for a missing band, in 1/100 won: the current
\* price less 5%, 7% or 10% by short-term risk (50 when no score is given)
StatedStopLossWithoutBand(in) ==
    LET risk == IF in.risk_scores.short_term = <<>> THEN 50
                ELSE in.risk_scores.short_term[1]
    IN  IF risk >= 70 THEN 95 * in.current_price
        ELSE IF risk >= 40 THEN 93 * in.current_price
        ELSE 90 * in.current_price

\* C29: when the Bollinger lower band is missing, the stop-loss is the
\* current price times (1 - d), d = 0.05 for short-term risk >= 70, 0.07 for
\* risk in [40,70) and 0.10 for risk < 40: the missing band does not tighten
\* the stop-loss.
C29_MissingBandKeepsTier ==
    (SignalReturned /\ signal_input.technical_indicators.bollinger_bands.lower = <<>>)
        => TradingSignal.exit_stop_loss = StatedStopLossWithoutBand(signal_input)

(***************************************************************************)
(* cache.py: calculate_ttl.  A datetime is a record of its weekday         *)
(* (Monday 0 .. Sunday 6, as datetime.weekday()) and its time of day in    *)
(* whole seconds; an instant after it is counted in seconds from the       *)
(* midnight that begins the day of generation.                             *)
(***************************************************************************)
SecondsPerDay == 86400

\* time(9, 0) and time(15, 30), in seconds of the day
MARKET_OPEN_TIME == 9 * 3600
MARKET_CLOSE_TIME == 15 * 3600 + 30 * 60

\* the day on which the loop of get_next_market_open stops: it steps over
\* Saturday (5) and Sunday (6)
RECURSIVE SkipWeekend(_, _)
SkipWeekend(weekday, days) ==
    IF (weekday + days) % 7 >= 5 THEN SkipWeekend(weekday, days + 1) ELSE days

\* next_open, in seconds from the midnight of current_time's day
get_next_market_open(current_time) ==
    LET days == IF current_time.seconds >= MARKET_CLOSE_TIME
                   \/ current_time.seconds < MARKET_OPEN_TIME
                THEN 1 ELSE 0
    IN  SkipWeekend(current_time.weekday, days) * SecondsPerDay + MARKET_OPEN_TIME

\* the floor of the TTL: 30 minutes
MinTtl == 1800

calculate_ttl(generation_time) ==
    LET current_time == generation_time.seconds
        ttl_seconds ==
            IF current_time >= MARKET_CLOSE_TIME \/ current_time < MARKET_OPEN_TIME
            THEN get_next_market_open(generation_time) - current_time
            ELSE MARKET_CLOSE_TIME - current_time
    IN  Max2(ttl_seconds, MinTtl)

\* generation times: every day of the week, around each boundary of the day
TimesOfDay ==
    {0, 8 * 3600, MARKET_OPEN_TIME - 600, MARKET_OPEN_TIME - 1, MARKET_OPEN_TIME,
     12 * 3600, 15 * 3600, 15 * 3600 + 600, MARKET_CLOSE_TIME - 1, MARKET_CLOSE_TIME,
     20 * 3600, SecondsPerDay - 1}
GenerationTimes == [weekday : 0..6, seconds : TimesOfDay]

(***************************************************************************)
(* Specification SpecCache: calculate_ttl applied to a generation time.    *)
(***************************************************************************)
InitCache ==
    /\ cache_input \in {<<g>> : g \in GenerationTimes}
    /\ cache_ttl = <<>>
    /\ EnsembleIdle /\ RiskIdle /\ TargetIdle /\ SignalIdle /\ TokenIdle

CalculateTtl ==
    /\ cache_input # <<>> /\ cache_ttl = <<>>
    /\ cache_ttl' = <<calculate_ttl(cache_input[1])>>
    /\ UNCHANGED <<cache_input, ensemble_vars, risk_vars, target_vars, signal_vars, token_vars>>

NextCache == CalculateTtl

SpecCache == InitCache /\ [][NextCache]_vars

TtlReturned == cache_ttl # <<>>
Generated == cache_input[1]

\* the instant the cached report expires, from the midnight of its day
Expiry == Generated.seconds + cache_ttl[1]

InSession(t) ==
    t.weekday < 5 /\ t.seconds >= MARKET_OPEN_TIME /\ t.seconds < MARKET_CLOSE_TIME

\* the first weekday 09:00 after t, from the midnight of t's day
RECURSIVE FirstWeekdayOpenAfter(_, _)
FirstWeekdayOpenAfter(t, days) ==
    IF (t.weekday + days) % 7 < 5
       /\ days * SecondsPerDay + MARKET_OPEN_TIME > t.seconds
    THEN days * SecondsPerDay + MARKET_OPEN_TIME
    ELSE FirstWeekdayOpenAfter(t, days + 1)

\* C26: calculate_ttl returns at least 1800 seconds, and the cached report
\* expires at the next boundary of the trading calendar: at 15:30 of the day
\* when generated during a weekday session, else at 09:00 of the next
\* trading day, the first weekday 09:00 after generation.
C26_ExpiresAtNextBoundary ==
    TtlReturned =>
        /\ cache_ttl[1] >= 1800
        /\ Expiry = IF InSession(Generated) THEN MARKET_CLOSE_TIME
                    ELSE FirstWeekdayOpenAfter(Generated, 0)

(***************************************************************************)
(* kis_data.py: get_access_token and the module-level _token_cache.  The   *)
(* callers are the data fetches that asyncio.gather runs concurrently for  *)
(* one report, each admitted by the rate limiter's semaphore.  A coroutine *)
(* runs without interruption between two awaits, so reading the cache and  *)
(* sending the POST is one step, and receiving the response and writing    *)
(* the cache is another.  The clock counts whole periods of time; the      *)
(* token itself is left out of the cache entry, expires_at is kept.        *)
(***************************************************************************)
NumCallers == 3
MaxClock == 3
MaxRequests == 4

\* expires_in - 300 seconds of the response, in ticks of the clock
Validities == {1, 2}

Callers == 1..NumCallers

\* _token_cache.get("token") and _token_cache.get("expires_at") and
\* datetime.now() < _token_cache["expires_at"]
CachedTokenValid == token_cache # <<>> /\ clock < token_cache[1].expires_at

Posting == {c \in Callers : caller_pc[c] = "posting"}

\* a caller enters get_access_token: with a valid cached token it returns at
\* once, otherwise it sends the POST to /oauth2/tokenP and awaits the answer
Call(c) ==
    /\ caller_pc[c] = "idle"
    /\ IF CachedTokenValid
       THEN /\ caller_pc' = [caller_pc EXCEPT ![c] = "done"]
            /\ issued' = issued
       ELSE /\ issued < MaxRequests
            /\ caller_pc' = [caller_pc EXCEPT ![c] = "posting"]
            /\ issued' = issued + 1
    /\ UNCHANGED <<token_cache, clock, ensemble_vars, risk_vars, target_vars, signal_vars, cache_vars>>

\* the response is 200: the cache is overwritten and the token returned
PostOk(c) ==
    /\ caller_pc[c] = "posting"
    /\ \E validity \in Validities :
          token_cache' = <<[expires_at |-> clock + validity]>>
    /\ caller_pc' = [caller_pc EXCEPT ![c] = "done"]
    /\ UNCHANGED <<issued, clock, ensemble_vars, risk_vars, target_vars, signal_vars, cache_vars>>

\* the response is not 200: the exception is raised, the cache is untouched
PostFail(c) ==
    /\ caller_pc[c] = "posting"
    /\ caller_pc' = [caller_pc EXCEPT ![c] = "raised"]
    /\ UNCHANGED <<token_cache, issued, clock, ensemble_vars, risk_vars, target_vars, signal_vars, cache_vars>>

\* the fetch is over; a later fetch of the same slot may call again
Again(c) ==
    /\ caller_pc[c] \in {"done", "raised"}
    /\ caller_pc' = [caller_pc EXCEPT ![c] = "idle"]
    /\ UNCHANGED <<token_cache, issued, clock, ensemble_vars, risk_vars, target_vars, signal_vars, cache_vars>>

\* time passes
Tick ==
    /\ clock < MaxClock
    /\ clock' = clock + 1
    /\ UNCHANGED <<token_cache, caller_pc, issued, ensemble_vars, risk_vars, target_vars, signal_vars, cache_vars>>

(***************************************************************************)
(* Specification SpecToken: concurrent callers of get_access_token.        *)
(***************************************************************************)
InitToken ==
    /\ token_cache = <<>>
    /\ caller_pc = [c \in Callers |-> "idle"]
    /\ issued = 0
    /\ clock = 0
    /\ EnsembleIdle /\ RiskIdle /\ TargetIdle /\ SignalIdle /\ CacheIdle

NextToken ==
    \/ \E c \in Callers : Call(c)
    \/ \E c \in Callers : PostOk(c)
    \/ \E c \in Callers : PostFail(c)
    \/ \E c \in Callers : Again(c)
    \/ Tick

SpecToken == InitToken /\ [][NextToken]_vars

\* a token request goes out to the token endpoint in this step
TokenRequestSent == issued' = issued + 1

\* C30: the token cache issues at most one token request per validity
\* period: a request is sent only when the cached token is missing or
\* expired, and of the concurrent callers that find it so only one sends a
\* request, so none is sent while another caller's request is in flight.
C30_OneTokenRequestPerPeriod ==
    [][TokenRequestSent => ~CachedTokenValid /\ Posting = {}]_vars

\* the half of C30 that the code keeps: no request while the token is valid
C30_NoRequestWhileValid ==
    [][TokenRequestSent => ~CachedTokenValid]_vars
====
